---- MODULE Spec2Model ----
(***************************************************************************)
(* A model of the consensus core of the versatus node: the DKG and quorum  *)
(* membership handlers of ConsensusModule, the certification of            *)
(* convergence blocks, the block validators Block::valid and               *)
(* Block::valid_genesis, the elections of Quorum and of the miner, the     *)
(* handlers of received blocks and the transaction validator.              *)
(*                                                                         *)
(* The module holds several specifications over one set of variables; each *)
(* specification drives one subsystem and keeps the variables of the       *)
(* others at their initial value.                                          *)
(***************************************************************************)
EXTENDS Integers, FiniteSets, Sequences, TLC

VARIABLES
    \* ConsensusModule / NodeRuntime configuration
    node_type,                        \* node_config.node_type
    threshold,                        \* node_config.threshold_config.threshold
    dkg_threshold,                    \* threshold of the key set held by sig_provider
    \* QuorumModule
    membership_config,                \* quorum_driver.membership_config (Option as a set)
    bootstrap_quorum_config,          \* quorum_driver.bootstrap_quorum_config (Option as a set)
    bootstrap_quorum_available_nodes, \* node id -> is_online
    \* DkgEngine state of the consensus module
    peer_public_keys,                 \* dkg_engine.dkg_state.peer_public_keys
    part_message_store,               \* dkg_engine.dkg_state.part_message_store
    ack_message_store,                \* dkg_engine.dkg_state.ack_message_store
    sync_key_gen,                     \* dkg_engine.dkg_state.sync_key_gen is Some
    acks_handled,                     \* the SyncKeyGen instance has handled the stored Acks
    public_key_set,                   \* dkg_engine.dkg_state.public_key_set (Option as a set)
    secret_key_share,                 \* dkg_engine.dkg_state.secret_key_share (Option as a set)
    \* DkgModule actor (its own DkgEngine, keyed by node index)
    dkg_module_part_message_store,
    dkg_module_ack_message_store,
    dkg_module_peer_public_keys,
    dkg_module_sync_key_gen,          \* its dkg_state.sync_key_gen is Some
    quorum_type,                      \* DkgModule.quorum_type (Option as a set)
    dkg_module_status,                \* the status of the actor
    \* certification
    convergence_block_certificates,   \* block hash -> set of shares
    certificates,                     \* history: certificates returned so far, per block hash
    dag,                              \* state_driver.dag: hashes of the blocks appended
    applied,                          \* state store: hashes of the blocks applied
    miner_dag,                        \* mining_driver.dag: hashes of the blocks the miner sees
    \* Block::valid
    candidate, parent, dependencies,
    \* quorum election
    quorum,                           \* the Quorum an election is run on
    seed_gen,                         \* Quorum::generate_seed: its position and random_number
    \* bookkeeping
    peers_reported,                   \* history: node ids delivered by NodeAddedToPeerList
    last,                             \* the last handler call and its result
    nevents                           \* number of events handled so far

configVars == <<node_type, threshold, dkg_threshold>>
quorumVars == <<membership_config>>
bootVars == <<bootstrap_quorum_config, bootstrap_quorum_available_nodes>>
dkgVars == <<peer_public_keys, part_message_store, ack_message_store, sync_key_gen>>
dkgActorVars == <<dkg_module_ack_message_store, dkg_module_peer_public_keys,
                  dkg_module_sync_key_gen, quorum_type, dkg_module_status>>
dkgModuleVars == <<dkg_module_part_message_store, dkgActorVars>>
certVars == <<convergence_block_certificates, certificates, dag, applied>>
blockVars == <<candidate, parent, dependencies>>
electionVars == <<quorum, seed_gen>>
keyVars == <<acks_handled, public_key_set, secret_key_share>>
minerVars == <<miner_dag>>

vars == <<configVars, minerVars, quorumVars, bootVars, dkgVars, dkgModuleVars, certVars,
          blockVars, electionVars, keyVars, peers_reported, last, nevents>>

----------------------------------------------------------------------------
(* Bounds of the model. *)

\* at most this many events are delivered to the node
MaxEvents == 4
\* threshold_config.threshold and the key set's threshold range over 0..MaxThreshold
MaxThreshold == 1
\* node indices of signature shares are 0..MaxShareIdx
MaxShareIdx == 1
\* at most this many certification events are delivered to the node
MaxCertEvents == 2
\* block heights are 0..MaxHeight
MaxHeight == 2

NodeIds == {0, 1}
SelfId == 0
Parts == {"part_a", "part_b"}
Acks == {"ack_a", "ack_b"}
NodeTypes == {"Bootstrap", "Miner", "Validator"}
QuorumKinds == {"Farmer", "Harvester"}
BlockHashes == {"h1", "h2"}

\* the validator public key of a node (keypair.validator_public_key_owned)
ValidatorPublicKey(id) == <<"vpk", id>>
\* the keys a peer may announce for a node id
PublicKeys(id) == {ValidatorPublicKey(id), <<"other", id>>}

EmptyMap == <<>>

\* no Quorum has been made, and generate_seed is not running
NoQuorum == <<>>
NoSeedGen == <<>>

\* the last call: the handler, what it returned ("Ok", "Err", "Some", "None"),
\* its argument, and the set of events it sent to the events channel
CallOut(op, ret, arg, out) == [op |-> op, ret |-> ret, arg |-> arg, out |-> out]
Call(op, ret, arg) == CallOut(op, ret, arg, {})
NoCall == Call("None", "Ok", 0)
Result(ok) == IF ok THEN "Ok" ELSE "Err"

\* the budget of events
Step == nevents < MaxEvents /\ nevents' = nevents + 1

\* map.insert(k, v)
Insert(m, k, v) == [x \in DOMAIN m \cup {k} |-> IF x = k THEN v ELSE m[x]]

\* a store that lets a later writer replace the entry
OrInsert_overwrite(m, k, v) == Insert(m, k, v)

\* map.entry(k).or_insert_with(|| v)
OrInsert(m, k, v) == IF k \in DOMAIN m THEN m ELSE Insert(m, k, v)

----------------------------------------------------------------------------
(* DkgEngine (dkg_engine crate). *)

\* DkgEngine::add_peer_public_key: a key is registered once per node id
add_peer_public_key(keys, id, key) == IF id \in DOMAIN keys THEN keys ELSE Insert(keys, id, key)

\* DkgEngine::generate_partial_commitment succeeds for a participant: a node
\* whose own key is registered, of a type that may take part in the DKG
generate_partial_commitment_ok(keys) ==
    /\ node_type \notin {"Bootstrap", "Miner"}
    /\ SelfId \in DOMAIN keys

\* DkgEngine::ack_partial_commitment needs the SyncKeyGen instance and the Part
ack_partial_commitment_ok(parts, sender_id) ==
    /\ sync_key_gen
    /\ sender_id \in DOMAIN parts

\* DkgEngine::ack_partial_commitment: the Ack of this node for the sender's
\* Part is kept in the Ack store; a Part handled before yields no new Ack
ack_partial_commitment(acks, sender_id, ack) ==
    IF <<SelfId, sender_id>> \in DOMAIN acks THEN acks
    ELSE Insert(acks, <<SelfId, sender_id>>, ack)

----------------------------------------------------------------------------
(* ConsensusModule: quorum membership. *)

\* an assignment check that forgets the installed membership
membership_assigment_ok_reassign == node_type # "Bootstrap"

\* handle_quorum_membership_assigment_created: the two refusals
membership_assigment_ok ==
    /\ node_type # "Bootstrap"
    /\ membership_config = {}

handle_quorum_membership_assigment_created(quorum_kind, peers) ==
    /\ IF membership_assigment_ok
          THEN membership_config' =
                   {[quorum_kind |-> quorum_kind, quorum_members |-> peers]}
          ELSE UNCHANGED membership_config
    /\ last' = Call("QuorumMembershipAssigned", Result(membership_assigment_ok), 0)

----------------------------------------------------------------------------
(* ConsensusModule: DKG handlers. *)

\* checks that forget the quorum membership
partial_commitment_allowed_without_membership ==
    /\ node_type # "Bootstrap"
    /\ node_type # "Miner"

\* generate_partial_commitment_message: the checks made before the DKG engine
\* is touched
partial_commitment_allowed ==
    /\ node_type # "Bootstrap"
    /\ node_type # "Miner"
    /\ membership_config # {}

generate_partial_commitment_message ==
    /\ IF partial_commitment_allowed
          THEN LET keys == add_peer_public_key(peer_public_keys, SelfId,
                                               ValidatorPublicKey(SelfId))
               IN /\ peer_public_keys' = keys
                  /\ sync_key_gen' = (sync_key_gen \/ generate_partial_commitment_ok(keys))
                  /\ last' = Call("GeneratePartialCommitment",
                                  Result(generate_partial_commitment_ok(keys)), SelfId)
          ELSE /\ UNCHANGED <<peer_public_keys, sync_key_gen>>
               /\ last' = Call("GeneratePartialCommitment", "Err", SelfId)
    /\ UNCHANGED <<part_message_store, ack_message_store>>

\* handle_part_commitment_created: the membership check on the sender
part_sender_rejected(sender_id) ==
    \E membership \in membership_config :
        /\ sender_id # SelfId
        /\ sender_id \notin membership.quorum_members

handle_part_commitment_created(sender_id, part, ack) ==
    IF part_sender_rejected(sender_id)
    THEN /\ last' = Call("PartCreated", "Err", <<sender_id, part>>)
         /\ UNCHANGED dkgVars
    ELSE LET parts == OrInsert(part_message_store, sender_id, part)
             acked == ack_partial_commitment_ok(parts, sender_id)
         IN /\ part_message_store' = parts
            /\ ack_message_store' =
                   IF acked THEN ack_partial_commitment(ack_message_store, sender_id, ack)
                            ELSE ack_message_store
            /\ last' = Call("PartCreated", Result(acked), <<sender_id, part>>)
            /\ UNCHANGED <<peer_public_keys, sync_key_gen>>

handle_part_commitment_acknowledged(receiver_id, sender_id, ack) ==
    /\ ack_message_store' = OrInsert(ack_message_store, <<receiver_id, sender_id>>, ack)
    /\ last' = Call("PartAcknowledged", "Ok", <<receiver_id, sender_id, ack>>)
    /\ UNCHANGED <<peer_public_keys, part_message_store, sync_key_gen>>

----------------------------------------------------------------------------
(* DkgModule: Event::PartMessage. *)

\* bincode::serialize of a Part, and byte strings that encode no Part
Serialize(part) == <<"bincode", part>>
PartBytes == {Serialize(part) : part \in Parts} \cup {<<"malformed">>}

\* bincode::deserialize::<Part>: the Part the bytes encode, or no Part
Deserialize(bytes) ==
    IF Len(bytes) = 2 /\ bytes[1] = "bincode" /\ bytes[2] \in Parts THEN {bytes[2]} ELSE {}

dkg_module_handle_part_message(node_idx, part_committment_bytes) ==
    /\ dkg_module_part_message_store' =
           IF Deserialize(part_committment_bytes) = {}
              THEN dkg_module_part_message_store
              ELSE OrInsert(dkg_module_part_message_store, node_idx,
                            CHOOSE part \in Deserialize(part_committment_bytes) : TRUE)
    /\ last' = Call("PartMessage", "Ok", <<node_idx, part_committment_bytes>>)

----------------------------------------------------------------------------
(* The DKG specification: a consensus module of any node type, and a DKG    *)
(* module, receiving membership assignments, Parts and Acks in any order.   *)

InitRest ==
    /\ threshold = 0
    /\ dkg_threshold = 0
    /\ membership_config = {}
    /\ bootstrap_quorum_config = {}
    /\ bootstrap_quorum_available_nodes = EmptyMap
    /\ peer_public_keys = EmptyMap
    /\ part_message_store = EmptyMap
    /\ ack_message_store = EmptyMap
    /\ sync_key_gen = FALSE
    /\ dkg_module_part_message_store = EmptyMap
    /\ convergence_block_certificates = EmptyMap
    /\ certificates = [h \in BlockHashes |-> 0]
    /\ dag = {}
    /\ applied = {}
    /\ candidate = 0
    /\ parent = 0
    /\ dependencies = 0
    /\ peers_reported = {}
    /\ last = NoCall
    /\ nevents = 0
    /\ quorum = NoQuorum
    /\ seed_gen = NoSeedGen
    /\ acks_handled = FALSE
    /\ public_key_set = {}
    /\ secret_key_share = {}
    /\ miner_dag = {}
    /\ dkg_module_ack_message_store = EmptyMap
    /\ dkg_module_peer_public_keys = EmptyMap
    /\ dkg_module_sync_key_gen = FALSE
    /\ quorum_type = {}
    /\ dkg_module_status = "Stopped"

InitDkg ==
    /\ node_type \in NodeTypes
    /\ InitRest

QuorumMembershipAssigned ==
    /\ Step
    /\ \E quorum_kind \in QuorumKinds, peers \in SUBSET NodeIds :
           handle_quorum_membership_assigment_created(quorum_kind, peers)
    /\ UNCHANGED <<configVars, minerVars, bootVars, dkgVars, dkgModuleVars, certVars, blockVars,
                   electionVars, keyVars,
                   peers_reported>>

GeneratePartialCommitment ==
    /\ Step
    /\ generate_partial_commitment_message
    /\ UNCHANGED <<configVars, minerVars, quorumVars, bootVars, dkgModuleVars, certVars,
                   blockVars, electionVars, keyVars,
                   peers_reported>>

PartCreated ==
    /\ Step
    /\ \E sender_id \in NodeIds, part \in Parts, ack \in Acks :
           handle_part_commitment_created(sender_id, part, ack)
    /\ UNCHANGED <<configVars, minerVars, quorumVars, bootVars, dkgModuleVars, certVars,
                   blockVars, electionVars, keyVars,
                   peers_reported>>

PartAcknowledged ==
    /\ Step
    /\ \E receiver_id \in NodeIds, sender_id \in NodeIds, ack \in Acks :
           handle_part_commitment_acknowledged(receiver_id, sender_id, ack)
    /\ UNCHANGED <<configVars, minerVars, quorumVars, bootVars, dkgModuleVars, certVars,
                   blockVars, electionVars, keyVars,
                   peers_reported>>

PartMessage ==
    /\ Step
    /\ \E node_idx \in NodeIds, bytes \in PartBytes :
           dkg_module_handle_part_message(node_idx, bytes)
    /\ UNCHANGED <<dkgActorVars, configVars, minerVars, quorumVars, bootVars, dkgVars, certVars,
                   blockVars, electionVars, keyVars,
                   peers_reported>>

NextDkg ==
    \/ QuorumMembershipAssigned
    \/ GeneratePartialCommitment
    \/ PartCreated
    \/ PartAcknowledged
    \/ PartMessage

SpecDkg == InitDkg /\ [][NextDkg]_vars

----------------------------------------------------------------------------
(* Claims about the DKG stores and the quorum membership (SpecDkg). *)

IsQuorumMember(sender_id) ==
    \/ sender_id = SelfId
    \/ \E membership \in membership_config : sender_id \in membership.quorum_members

\* every entry of the map m is still in m2, with the same value
Kept(m, m2) == \A k \in DOMAIN m : k \in DOMAIN m2 /\ m2[k] = m[k]

\* C3: the DKG message stores are first-writer-wins: an entry of
\* part_message_store (of the consensus module or of the DKG module) or of
\* ack_message_store, once written, is never changed by a later event; and
\* handling again a Part whose sender already has a stored Part and a stored
\* Ack, or an Ack whose (receiver, sender) pair is already stored, leaves
\* the stored DKG state as it was.
C3_FirstWriterWins ==
    [][ /\ Kept(part_message_store, part_message_store')
        /\ Kept(ack_message_store, ack_message_store')
        /\ Kept(dkg_module_part_message_store, dkg_module_part_message_store')
        /\ \A sender_id \in NodeIds, part \in Parts, ack \in Acks :
               ( /\ handle_part_commitment_created(sender_id, part, ack)
                 /\ sender_id \in DOMAIN part_message_store
                 /\ <<SelfId, sender_id>> \in DOMAIN ack_message_store )
               => UNCHANGED dkgVars
        /\ \A receiver_id \in NodeIds, sender_id \in NodeIds, ack \in Acks :
               ( /\ handle_part_commitment_acknowledged(receiver_id, sender_id, ack)
                 /\ <<receiver_id, sender_id>> \in DOMAIN ack_message_store )
               => UNCHANGED dkgVars
        /\ \A node_idx \in NodeIds, bytes \in PartBytes :
               ( /\ dkg_module_handle_part_message(node_idx, bytes)
                 /\ node_idx \in DOMAIN dkg_module_part_message_store )
               => UNCHANGED dkgModuleVars
      ]_vars

\* C3 witness: a second, different Part of a sender was handled and acknowledged
\* while the sender's first Part is the one stored
C3_Witness ==
    /\ last.op = "PartCreated"
    /\ last.ret = "Ok"
    /\ last.arg[1] \in DOMAIN part_message_store
    /\ part_message_store[last.arg[1]] # last.arg[2]

\* C4 (as claimed): a Part whose sender is not a member of the node's quorum is
\* rejected with an error and nothing is stored, in every state of the node,
\* also when no membership is installed.
C4_NonMemberPartRejected ==
    [][ \A sender_id \in NodeIds, part \in Parts, ack \in Acks :
            ( /\ handle_part_commitment_created(sender_id, part, ack)
              /\ ~IsQuorumMember(sender_id) )
            => /\ last'.ret = "Err"
               /\ UNCHANGED dkgVars
      ]_vars

\* C5: quorum membership is write-once: an installed membership never
\* changes, an assignment delivered to a node that has one returns an error,
\* and on a Bootstrap node every assignment returns an error and the
\* membership stays None.
C5_MembershipWriteOnce ==
    [][ /\ membership_config # {} => membership_config' = membership_config
        /\ node_type = "Bootstrap" => membership_config' = {}
        /\ \A quorum_kind \in QuorumKinds, peers \in SUBSET NodeIds :
               ( /\ handle_quorum_membership_assigment_created(quorum_kind, peers)
                 /\ (membership_config # {} \/ node_type = "Bootstrap") )
               => /\ last'.ret = "Err"
                  /\ UNCHANGED membership_config
      ]_vars

\* C5 witness: a second assignment was refused on a node that has a membership
C5_Witness ==
    /\ last.op = "QuorumMembershipAssigned"
    /\ last.ret = "Err"
    /\ membership_config # {}

\* C6: generate_partial_commitment_message fails on a Bootstrap node, on a
\* Miner node and on a node with no quorum membership, and then leaves
\* peer_public_keys and the Part and Ack stores unchanged.
C6_PartialCommitmentRefused ==
    [][ ( /\ generate_partial_commitment_message
          /\ (node_type \in {"Bootstrap", "Miner"} \/ membership_config = {}) )
        => /\ last'.ret = "Err"
           /\ UNCHANGED dkgVars
      ]_vars

\* C6 witness: the call was refused on a Validator node without a membership
\* after a Part had been stored
C6_Witness ==
    /\ last.op = "GeneratePartialCommitment"
    /\ last.ret = "Err"
    /\ node_type = "Validator"
    /\ membership_config = {}
    /\ part_message_store # EmptyMap

----------------------------------------------------------------------------
(* ConsensusModule::handle_node_added_to_peer_list. *)

\* QuorumModule::new: every member of the bootstrap quorum configuration is
\* listed in bootstrap_quorum_available_nodes, not yet online
initial_available_nodes(config) ==
    IF config = {} THEN EmptyMap
    ELSE LET quorum_config == CHOOSE c \in config : TRUE
         IN [node_id \in quorum_config.quorum_members |-> FALSE]

\* a check that is content with one member online
all_nodes_available_any(available_nodes) ==
    \E node_id \in DOMAIN available_nodes : available_nodes[node_id]

\* available_nodes.iter().all(|(_, (_, is_online))| *is_online)
all_nodes_available(available_nodes) ==
    \A node_id \in DOMAIN available_nodes : available_nodes[node_id]

\* the available nodes after the peer has been marked online
mark_available(node_id) ==
    IF \E quorum_config \in bootstrap_quorum_config :
           node_id \in quorum_config.quorum_members
       THEN Insert(bootstrap_quorum_available_nodes, node_id, TRUE)
       ELSE bootstrap_quorum_available_nodes

\* assign_quorums is whether QuorumModule::assign_peer_list_to_quorums succeeds
handle_node_added_to_peer_list(node_id, validator_public_key, assign_quorums) ==
    /\ peers_reported' = peers_reported \cup {node_id}
    /\ IF bootstrap_quorum_config # {}
          THEN bootstrap_quorum_available_nodes' = mark_available(node_id)
          ELSE UNCHANGED bootstrap_quorum_available_nodes
    /\ IF /\ bootstrap_quorum_config # {}
          /\ all_nodes_available(mark_available(node_id))
          /\ node_type = "Bootstrap"
          THEN /\ last' = Call("NodeAddedToPeerList",
                               IF assign_quorums THEN "Some" ELSE "Err",
                               <<node_id, validator_public_key>>)
               /\ UNCHANGED peer_public_keys
          ELSE /\ peer_public_keys' =
                      add_peer_public_key(peer_public_keys, node_id, validator_public_key)
               /\ last' = Call("NodeAddedToPeerList", "None",
                               <<node_id, validator_public_key>>)
    /\ UNCHANGED <<bootstrap_quorum_config, part_message_store, ack_message_store,
                   sync_key_gen>>

----------------------------------------------------------------------------
(* The bootstrap specification: a node of any type, with or without a       *)
(* bootstrap quorum configuration, told of peers in any order.               *)

BootstrapQuorumConfigs ==
    {{}} \cup {{[quorum_members |-> members]} : members \in SUBSET NodeIds}

InitBoot ==
    /\ node_type \in NodeTypes
    /\ threshold = 0
    /\ dkg_threshold = 0
    /\ membership_config = {}
    /\ bootstrap_quorum_config \in BootstrapQuorumConfigs
    /\ bootstrap_quorum_available_nodes = initial_available_nodes(bootstrap_quorum_config)
    /\ peer_public_keys = EmptyMap
    /\ part_message_store = EmptyMap
    /\ ack_message_store = EmptyMap
    /\ sync_key_gen = FALSE
    /\ dkg_module_part_message_store = EmptyMap
    /\ convergence_block_certificates = EmptyMap
    /\ certificates = [h \in BlockHashes |-> 0]
    /\ dag = {}
    /\ applied = {}
    /\ candidate = 0
    /\ parent = 0
    /\ dependencies = 0
    /\ peers_reported = {}
    /\ last = NoCall
    /\ nevents = 0
    /\ quorum = NoQuorum
    /\ seed_gen = NoSeedGen
    /\ acks_handled = FALSE
    /\ public_key_set = {}
    /\ secret_key_share = {}
    /\ miner_dag = {}
    /\ dkg_module_ack_message_store = EmptyMap
    /\ dkg_module_peer_public_keys = EmptyMap
    /\ dkg_module_sync_key_gen = FALSE
    /\ quorum_type = {}
    /\ dkg_module_status = "Stopped"

NodeAddedToPeerList ==
    /\ Step
    /\ \E node_id \in NodeIds, assign_quorums \in BOOLEAN :
           \E validator_public_key \in PublicKeys(node_id) :
               handle_node_added_to_peer_list(node_id, validator_public_key, assign_quorums)
    /\ UNCHANGED <<configVars, minerVars, quorumVars, dkgModuleVars, certVars, blockVars,
                   electionVars, keyVars>>

NextBoot == NodeAddedToPeerList

SpecBoot == InitBoot /\ [][NextBoot]_vars

\* the members of the bootstrap quorum configuration that no
\* NodeAddedToPeerList event has reported yet
MembersMissing ==
    {node_id \in NodeIds :
        /\ \E quorum_config \in bootstrap_quorum_config :
               node_id \in quorum_config.quorum_members
        /\ node_id \notin peers_reported}

\* C7: handle_node_added_to_peer_list returns quorum assignments only on a
\* Bootstrap node with a bootstrap quorum configuration all of whose members
\* have been reported by NodeAddedToPeerList events; while a member is still
\* to be reported, and on every node that is not a Bootstrap node, it
\* returns None.
C7_AssignmentsOnlyWhenAllOnline ==
    last.op = "NodeAddedToPeerList" =>
        /\ last.ret = "Some" =>
               /\ node_type = "Bootstrap"
               /\ bootstrap_quorum_config # {}
               /\ MembersMissing = {}
        /\ (node_type # "Bootstrap" \/ MembersMissing # {}) => last.ret = "None"

\* C7 witness: the Bootstrap node returned assignments on the event that
\* reported the last of two members, after returning None on the first
C7_Witness ==
    /\ last.op = "NodeAddedToPeerList"
    /\ last.ret = "Some"
    /\ nevents >= 2
    /\ Cardinality(peers_reported) = 2
    /\ \E quorum_config \in bootstrap_quorum_config :
           quorum_config.quorum_members = peers_reported

----------------------------------------------------------------------------
(* Certification of convergence blocks. *)

\* a share (NodeIdx, PublicKeyShare, RawSignature) of the cache; the public
\* key share is the one of the node index
Signatures == {"valid", "forged"}
Shares == [node_idx : 0 .. MaxShareIdx, signature : Signatures]

\* certificates_share.iter().for_each(|(node_idx, _, signature)|
\*     sig_shares.insert(*node_idx, signature)): the BTreeMap keeps, for a node
\* index, the signature of the entry the HashSet yields last
sig_shares_of(certificates_share) ==
    LET idxs == {share.node_idx : share \in certificates_share}
    IN {m \in [idxs -> Signatures] :
           \A i \in idxs : [node_idx |-> i, signature |-> m[i]] \in certificates_share}

\* SignatureProvider::generate_quorum_signature: shares of more nodes than the
\* threshold of the key set combine
generate_quorum_signature_ok(sig_shares) ==
    Cardinality(DOMAIN sig_shares) > dkg_threshold

\* the signature generate_quorum_signature returns: the shares of the lowest
\* dkg_threshold + 1 node indices are combined; valid shares combine into the
\* one signature of the quorum, and a forged share among them changes the
\* outcome, so the signature is told by the forged shares combined
quorum_signature(sig_shares) ==
    LET combined == {i \in DOMAIN sig_shares :
                        Cardinality({j \in DOMAIN sig_shares : j < i}) <= dkg_threshold}
    IN {i \in combined : sig_shares[i] = "forged"}

\* a share count check that is off by one
enough_shares_off_by_one(certificates_share) ==
    ~(Cardinality(certificates_share) < threshold)

\* certificates_share.len() as u16 <= quorum_threshold returns the error
enough_shares(certificates_share) ==
    ~(Cardinality(certificates_share) <= threshold)

\* ConsensusModule::certify_convergence_block: "Ok" with a certificate, or "Err"
certify_result(block_hash, sig_shares) ==
    IF block_hash \notin DOMAIN convergence_block_certificates THEN "Err"
    ELSE IF ~enough_shares(convergence_block_certificates[block_hash]) THEN "Err"
    ELSE IF ~generate_quorum_signature_ok(sig_shares) THEN "Err"
    ELSE "Ok"

\* the choices of sig_shares for a block hash
sig_shares_choices(block_hash) ==
    IF block_hash \in DOMAIN convergence_block_certificates
       THEN sig_shares_of(convergence_block_certificates[block_hash])
       ELSE {EmptyMap}

\* the certificates returned so far, with this call's
certified(block_hash, result) ==
    IF result = "Ok"
       THEN [certificates EXCEPT ![block_hash] = @ + 1]
       ELSE certificates

\* generate_partial_commitment_message: the threshold handed to the DKG,
\* quorum_membership_config.quorum_members().len() / 2
partial_commitment_threshold(quorum_membership_config) ==
    Cardinality(quorum_membership_config.quorum_members) \div 2

\* block.header.ref_hashes: the block h1 refers to the proposal block p1, the
\* block h2 to no proposal block; no proposal block is in the DAG
ref_hashes(block_hash) == IF block_hash = "h1" THEN {"p1"} ELSE {}

\* precheck_convergence_block: its body is commented out
precheck_convergence_block(block_hash) == TRUE

certify_convergence_block(block_hash, sig_shares) ==
    /\ precheck_convergence_block(block_hash)
    /\ certificates' = certified(block_hash, certify_result(block_hash, sig_shares))
    /\ last' = Call("CertifyConvergenceBlock", certify_result(block_hash, sig_shares),
                    block_hash)
    /\ UNCHANGED <<convergence_block_certificates, dag, applied>>

\* handle_convergence_block_partial_signature_created and
\* handle_convergence_block_peer_signature_request: the bodies are commented
\* out, the share of the message is not read
handle_convergence_block_partial_signature_created(block_hash, share) ==
    /\ last' = Call("ConvergenceBlockPartialSign", "Ok", <<block_hash, share>>)
    /\ UNCHANGED certVars

handle_convergence_block_peer_signature_request(block_hash, share) ==
    /\ last' = Call("PeerConvergenceBlockSign", "Ok", <<block_hash, share>>)
    /\ UNCHANGED certVars

\* Cache: an entry older than the time to live is dropped
expire_certificate_shares(block_hash) ==
    /\ block_hash \in DOMAIN convergence_block_certificates
    /\ convergence_block_certificates' =
           [h \in DOMAIN convergence_block_certificates \ {block_hash} |->
               convergence_block_certificates[h]]
    /\ last' = Call("Expire", "Ok", block_hash)
    /\ UNCHANGED <<certificates, dag, applied>>

----------------------------------------------------------------------------
(* NodeRuntime: the role checks and handle_convergence_block_received. *)

\* has_required_node_type: matches!(self.config.node_type, intended_node_type)
\* matches every node type, intended_node_type being a pattern that binds
has_required_node_type(intended_node_type) == TRUE

\* belongs_to_correct_quorum: matches!(quorum_kind, intended_quorum) matches
\* every quorum kind; the error is left for the node without a membership
belongs_to_correct_quorum(intended_quorum) == membership_config # {}

\* a received block applied although the DAG did not take it
received_block_refused_by_role_only(append_ok) ==
    ~has_required_node_type("Validator") \/ ~belongs_to_correct_quorum("Harvester")

\* handle_genesis_block_received and handle_convergence_block_received return
\* the error of the node type check, of the quorum check or of the append to
\* the DAG, in this order, before the block is applied
received_block_refused(append_ok) ==
    \/ ~has_required_node_type("Validator")
    \/ ~belongs_to_correct_quorum("Harvester")
    \/ ~append_ok

\* block is the received block: its hash and whether it carries a certificate;
\* append_ok, header_known and apply_ok are the answers of the DAG
\* (append_convergence, last_confirmed_block_header) and of the state store
handle_convergence_block_received(block, append_ok, header_known, apply_ok, sig_shares) ==
    IF received_block_refused(append_ok)
    THEN /\ last' = Call("ConvergenceBlockReceived", "Err", <<block, append_ok>>)
         /\ UNCHANGED certVars
    ELSE /\ dag' = dag \cup {block.hash}
         /\ certificates' =
                IF ~block.certificate /\ header_known
                   THEN certified(block.hash, certify_result(block.hash, sig_shares))
                   ELSE certificates
         /\ applied' = IF apply_ok THEN applied \cup {block.hash} ELSE applied
         /\ last' = Call("ConvergenceBlockReceived", Result(apply_ok), <<block, append_ok>>)
         /\ UNCHANGED convergence_block_certificates

----------------------------------------------------------------------------
(* The certification specification: a node with any share cache, any        *)
(* thresholds and with or without a quorum membership.                      *)

\* the cache is empty or holds shares for one block hash; the calls are made
\* for that hash and for another
ShareCaches ==
    {EmptyMap} \cup {[h \in {"h1"} |-> shares] : shares \in SUBSET Shares}

InitCertRest ==
    /\ threshold \in 0 .. MaxThreshold
    /\ dkg_threshold \in 0 .. MaxThreshold
    /\ membership_config \in
           {{}} \cup {{[quorum_kind |-> quorum_kind, quorum_members |-> NodeIds]} :
                         quorum_kind \in QuorumKinds}
                \cup {{[quorum_kind |-> "Harvester", quorum_members |-> {SelfId}]}}
    /\ bootstrap_quorum_config = {}
    /\ bootstrap_quorum_available_nodes = EmptyMap
    /\ peer_public_keys = EmptyMap
    /\ part_message_store = EmptyMap
    /\ ack_message_store = EmptyMap
    /\ sync_key_gen = FALSE
    /\ dkg_module_part_message_store = EmptyMap
    /\ convergence_block_certificates \in ShareCaches
    /\ certificates = [h \in BlockHashes |-> 0]
    /\ dag = {}
    /\ applied = {}
    /\ candidate = 0
    /\ parent = 0
    /\ dependencies = 0
    /\ peers_reported = {}
    /\ last = NoCall
    /\ nevents = 0
    /\ quorum = NoQuorum
    /\ seed_gen = NoSeedGen
    /\ acks_handled = FALSE
    /\ public_key_set = {}
    /\ secret_key_share = {}
    /\ miner_dag = {}
    /\ dkg_module_ack_message_store = EmptyMap
    /\ dkg_module_peer_public_keys = EmptyMap
    /\ dkg_module_sync_key_gen = FALSE
    /\ quorum_type = {}
    /\ dkg_module_status = "Stopped"

InitCert ==
    /\ node_type = "Validator"
    /\ InitCertRest

CertStep == nevents < MaxCertEvents /\ nevents' = nevents + 1

notCertVars == <<configVars, minerVars, quorumVars, bootVars, dkgVars, dkgModuleVars, blockVars,
                 electionVars, keyVars,
                 peers_reported>>

CertifyConvergenceBlock ==
    /\ CertStep
    /\ \E block_hash \in BlockHashes :
           \E sig_shares \in sig_shares_choices(block_hash) :
               certify_convergence_block(block_hash, sig_shares)
    /\ UNCHANGED notCertVars

\* the shares delivered to the two handlers: of one node index, valid or not
DeliveredShares == {share \in Shares : share.node_idx = SelfId}

ConvergenceBlockPartialSign ==
    /\ CertStep
    /\ \E block_hash \in BlockHashes, share \in DeliveredShares :
           handle_convergence_block_partial_signature_created(block_hash, share)
    /\ UNCHANGED notCertVars

PeerConvergenceBlockSign ==
    /\ CertStep
    /\ \E block_hash \in BlockHashes, share \in DeliveredShares :
           handle_convergence_block_peer_signature_request(block_hash, share)
    /\ UNCHANGED notCertVars

ExpireCertificateShares ==
    /\ CertStep
    /\ \E block_hash \in BlockHashes : expire_certificate_shares(block_hash)
    /\ UNCHANGED notCertVars

ConvergenceBlockReceived ==
    /\ CertStep
    /\ \E block_hash \in BlockHashes, certificate \in BOOLEAN,
          append_ok \in BOOLEAN, header_known \in BOOLEAN, apply_ok \in BOOLEAN :
           \E sig_shares \in sig_shares_choices(block_hash) :
               handle_convergence_block_received(
                   [hash |-> block_hash, certificate |-> certificate],
                   append_ok, header_known, apply_ok, sig_shares)
    /\ UNCHANGED notCertVars

NextCert ==
    \/ CertifyConvergenceBlock
    \/ ConvergenceBlockPartialSign
    \/ PeerConvergenceBlockSign
    \/ ExpireCertificateShares
    \/ ConvergenceBlockReceived

SpecCert == InitCert /\ [][NextCert]_vars

\* the shares cached for the hash of the last call
CachedShares(block_hash) ==
    IF block_hash \in DOMAIN convergence_block_certificates
       THEN convergence_block_certificates[block_hash]
       ELSE {}

\* C1: certify_convergence_block returns a certificate for a block hash only
\* when the share set cached for the hash has more entries than
\* threshold_config.threshold; it returns an error when the set has threshold
\* or fewer entries or no set is cached; and it returns the certificate when
\* the set has more entries than the threshold and the shares combine (the
\* shares are of more nodes than the threshold of the key set).
C1_CertificateIffEnoughShares ==
    last.op = "CertifyConvergenceBlock" =>
        /\ last.ret = "Ok" =>
               /\ last.arg \in DOMAIN convergence_block_certificates
               /\ Cardinality(CachedShares(last.arg)) > threshold
        /\ ( \/ last.arg \notin DOMAIN convergence_block_certificates
             \/ Cardinality(CachedShares(last.arg)) <= threshold ) => last.ret = "Err"
        /\ ( /\ Cardinality(CachedShares(last.arg)) > threshold
             /\ Cardinality({share.node_idx : share \in CachedShares(last.arg)})
                    > dkg_threshold ) => last.ret = "Ok"

\* C1 witness: a certificate was returned for a set of threshold + 1 shares
C1_Witness ==
    /\ last.op = "CertifyConvergenceBlock"
    /\ last.ret = "Ok"
    /\ threshold > 0
    /\ Cardinality(CachedShares(last.arg)) = threshold + 1

----------------------------------------------------------------------------
(* Block validation: Block::valid(candidate, parent, dependencies). *)

Heights == 0 .. MaxHeight
Nonces == {7, 8}
Amounts == {20, 25}
Miners == {"miner_a"}
ClaimHashes == {"claim_a", "claim_b"}
Pointers == {3, 4}

\* a Reward: the amount get_amount() returns and the miner receivable() pays
Rewards == [amount : Amounts, miner : {{}} \cup {{m} : m \in Miners}]

\* a claim, with the result of get_pointer(block_nonce) and of valid()
Claims == [hash : ClaimHashes, pointer : {{}} \cup {{p} : p \in Pointers}]
MinerClaims == [hash : ClaimHashes, pointer : {{}} \cup {{p} : p \in Pointers},
                valid : BOOLEAN]

\* header.verify() and the validators' votes on the txns are results of the
\* candidate that Block::valid does not ask for
Candidates ==
    [block_height : Heights, block_nonce : Nonces, block_reward : Rewards,
     last_hash : BlockHashes, claim : MinerClaims,
     header_verifies : BOOLEAN, txns_valid : BOOLEAN]

Parents ==
    [block_height : Heights, next_block_nonce : Nonces,
     next_block_reward : [amount : Amounts, miner : {{}}], hash : {"h1"}]

\* the claim map of the network state, in the order of the LinkedHashMap
ClaimMaps ==
    {<<>>} \cup {<<c>> : c \in Claims}
           \cup {claims \in Claims \X Claims : claims[1].hash # claims[2].hash}

\* NetworkState::get_lowest_pointer: the first claim, in the order of the map,
\* with the lowest pointer; None when no claim has a pointer
get_lowest_pointer(claim_map) ==
    LET base_pointers == {i \in DOMAIN claim_map : claim_map[i].pointer # {}}
        pointer(i) == CHOOSE p \in claim_map[i].pointer : TRUE
        lowest == {i \in base_pointers :
                      \A j \in base_pointers :
                          pointer(i) < pointer(j) \/ (pointer(i) = pointer(j) /\ i <= j)}
    IN {<<claim_map[i].hash, pointer(i)>> : i \in lowest}

\* a sequence check that counts the parent's height as out of sequence
out_of_sequence_from_parent(block, item) == block.block_height > item.block_height

out_of_sequence(block, item) == block.block_height > item.block_height + 1

not_tallest_chain(block, item) == block.block_height <= item.block_height

nonce_mismatch(block, item) == block.block_nonce # item.next_block_nonce

\* a reward check that compares the miners rather than the amounts
reward_mismatch_of_miner(block, item) ==
    block.block_reward.miner # item.next_block_reward.miner

reward_mismatch(block, item) ==
    block.block_reward.amount # item.next_block_reward.amount

\* the check is made only when the state has a lowest pointer
pointers_mismatch(block, claim_map) ==
    \E lowest \in get_lowest_pointer(claim_map) :
        IF lowest[1] = block.claim.hash
           THEN block.claim.pointer # {lowest[2]}
           ELSE TRUE

last_hash_mismatch(block, item) == block.last_hash # item.hash

claim_invalid(block) == ~block.claim.valid

\* Block::valid: "Ok" or the reason of the error
valid(block, item, claim_map) ==
    IF out_of_sequence(block, item) THEN "BlockOutOfSequence"
    ELSE IF not_tallest_chain(block, item) THEN "NotTallestChain"
    ELSE IF nonce_mismatch(block, item) THEN "InvalidBlockNonce"
    ELSE IF reward_mismatch(block, item) THEN "InvalidBlockReward"
    ELSE IF pointers_mismatch(block, claim_map) THEN "InvalidClaimPointers"
    ELSE IF last_hash_mismatch(block, item) THEN "InvalidLastHash"
    ELSE IF claim_invalid(block) THEN "InvalidClaim"
    ELSE "Ok"

InitBlock ==
    /\ node_type = "Validator"
    /\ threshold = 0
    /\ dkg_threshold = 0
    /\ membership_config = {}
    /\ bootstrap_quorum_config = {}
    /\ bootstrap_quorum_available_nodes = EmptyMap
    /\ peer_public_keys = EmptyMap
    /\ part_message_store = EmptyMap
    /\ ack_message_store = EmptyMap
    /\ sync_key_gen = FALSE
    /\ dkg_module_part_message_store = EmptyMap
    /\ convergence_block_certificates = EmptyMap
    /\ certificates = [h \in BlockHashes |-> 0]
    /\ dag = {}
    /\ applied = {}
    /\ candidate \in Candidates
    /\ parent \in Parents
    /\ dependencies \in ClaimMaps
    /\ peers_reported = {}
    /\ last = NoCall
    /\ nevents = 0
    /\ quorum = NoQuorum
    /\ seed_gen = NoSeedGen
    /\ acks_handled = FALSE
    /\ public_key_set = {}
    /\ secret_key_share = {}
    /\ miner_dag = {}
    /\ dkg_module_ack_message_store = EmptyMap
    /\ dkg_module_peer_public_keys = EmptyMap
    /\ dkg_module_sync_key_gen = FALSE
    /\ quorum_type = {}
    /\ dkg_module_status = "Stopped"

BlockValid ==
    /\ nevents = 0
    /\ nevents' = 1
    /\ last' = Call("BlockValid", valid(candidate, parent, dependencies), 0)
    /\ UNCHANGED <<configVars, minerVars, quorumVars, bootVars, dkgVars, dkgModuleVars, certVars,
                   blockVars, electionVars, keyVars, peers_reported>>

NextBlock == BlockValid

SpecBlock == InitBlock /\ [][NextBlock]_vars

\* C8: Block::valid gives BlockOutOfSequence when the candidate's height is
\* above the parent's height + 1, NotTallestChain when it is at or below the
\* parent's height, and neither of the two when it is the parent's height + 1.
C8_SequenceReasons ==
    last.op = "BlockValid" =>
        /\ candidate.block_height > parent.block_height + 1
               => last.ret = "BlockOutOfSequence"
        /\ candidate.block_height <= parent.block_height
               => last.ret = "NotTallestChain"
        /\ candidate.block_height = parent.block_height + 1
               => last.ret \notin {"BlockOutOfSequence", "NotTallestChain"}

\* C8 witness: a candidate at the height of its parent, above the genesis
\* height, was refused as not the tallest chain
C8_Witness ==
    /\ last.op = "BlockValid"
    /\ parent.block_height > 0
    /\ candidate.block_height = parent.block_height
    /\ last.ret = "NotTallestChain"

\* the checks of the validator in their order, with the reason of each; the
\* sequence check has the two reasons of C8
FailedChecks ==
    {n \in 1 .. 8 :
        \/ n = 1 /\ candidate.block_height # parent.block_height + 1
        \/ n = 2 /\ nonce_mismatch(candidate, parent)
        \/ n = 3 /\ reward_mismatch(candidate, parent)
        \/ n = 4 /\ pointers_mismatch(candidate, dependencies)
        \/ n = 5 /\ last_hash_mismatch(candidate, parent)
        \/ n = 6 /\ claim_invalid(candidate)
        \/ n = 7 /\ ~candidate.header_verifies
        \/ n = 8 /\ ~candidate.txns_valid}

ReasonsOfCheck ==
    <<{"BlockOutOfSequence", "NotTallestChain"}, {"InvalidBlockNonce"},
      {"InvalidBlockReward"}, {"InvalidClaimPointers"}, {"InvalidLastHash"},
      {"InvalidClaim"}, {"InvalidBlockSignature"}, {"InvalidTxns"}>>

\* C9 (as claimed): Block::valid makes its checks in the order Sequence, Nonce,
\* Reward, Pointers, Parent, Claim, Header signature, Txns, and for a candidate
\* that fails two or more of them returns the reason of the earliest one.
C9_FirstFailingCheckReported ==
    (last.op = "BlockValid" /\ Cardinality(FailedChecks) >= 2) =>
        \E n \in FailedChecks :
            /\ \A m \in FailedChecks : n <= m
            /\ last.ret \in ReasonsOfCheck[n]

\* the linking equalities other than the named one hold and the pointers
\* check, made between the reward and the last hash, does not fail
OnlyFails(check) ==
    /\ candidate.block_height = parent.block_height + 1
    /\ (check = "nonce") = nonce_mismatch(candidate, parent)
    /\ (check = "reward") = reward_mismatch(candidate, parent)
    /\ (check = "last_hash") = last_hash_mismatch(candidate, parent)
    /\ ~pointers_mismatch(candidate, dependencies)

\* C10 (as claimed): a candidate accepted by Block::valid has the parent's
\* height + 1, the parent's next nonce, the parent's next reward and the
\* parent's hash as last hash; a violation of the nonce, reward or last hash
\* equality alone gives InvalidBlockNonce, InvalidBlockReward, InvalidLastHash.
C10_AcceptedLinkedToParent ==
    last.op = "BlockValid" =>
        /\ last.ret = "Ok" =>
               /\ candidate.block_height = parent.block_height + 1
               /\ candidate.block_nonce = parent.next_block_nonce
               /\ candidate.block_reward = parent.next_block_reward
               /\ candidate.last_hash = parent.hash
        /\ OnlyFails("nonce") => last.ret = "InvalidBlockNonce"
        /\ ( /\ candidate.block_height = parent.block_height + 1
             /\ candidate.block_nonce = parent.next_block_nonce
             /\ candidate.block_reward # parent.next_block_reward
             /\ candidate.last_hash = parent.hash
             /\ ~pointers_mismatch(candidate, dependencies) )
               => last.ret = "InvalidBlockReward"
        /\ OnlyFails("last_hash") => last.ret = "InvalidLastHash"

\* C10 (amended): a candidate accepted by Block::valid has the parent's
\* height + 1, the parent's next nonce, the amount of the parent's next reward
\* and the parent's hash as last hash; a violation of the nonce, reward amount
\* or last hash equality alone gives InvalidBlockNonce, InvalidBlockReward,
\* InvalidLastHash.
C10_AcceptedLinkedByRewardAmount ==
    last.op = "BlockValid" =>
        /\ last.ret = "Ok" =>
               /\ candidate.block_height = parent.block_height + 1
               /\ candidate.block_nonce = parent.next_block_nonce
               /\ candidate.block_reward.amount = parent.next_block_reward.amount
               /\ candidate.last_hash = parent.hash
        /\ OnlyFails("nonce") => last.ret = "InvalidBlockNonce"
        /\ OnlyFails("reward") => last.ret = "InvalidBlockReward"
        /\ OnlyFails("last_hash") => last.ret = "InvalidLastHash"

\* C10 witness: a candidate was accepted whose reward has the amount of the
\* parent's next reward and names its miner
C10_Witness ==
    /\ last.op = "BlockValid"
    /\ last.ret = "Ok"
    /\ candidate.block_reward # parent.next_block_reward
    /\ candidate.block_reward.amount = parent.next_block_reward.amount

\* C11 (as claimed): for every block Block::valid accepts, the lowest pointer
\* of the state for the block's nonce exists and is (hash of the miner claim,
\* pointer of the miner claim for the nonce); no block is accepted when the
\* state has no lowest pointer or the miner claim has no pointer.
C11_AcceptedMatchesLowestPointer ==
    (last.op = "BlockValid" /\ last.ret = "Ok") =>
        /\ get_lowest_pointer(dependencies) # {}
        /\ candidate.claim.pointer # {}
        /\ \A lowest \in get_lowest_pointer(dependencies) :
               /\ lowest[1] = candidate.claim.hash
               /\ candidate.claim.pointer = {lowest[2]}

\* C12 (as claimed): a candidate whose header signature does not verify and
\* that passes the sequence, nonce, reward, pointers, parent hash and claim
\* checks is refused with InvalidBlockSignature; no block with an invalid
\* header signature is accepted.
C12_InvalidSignatureRejected ==
    (last.op = "BlockValid" /\ ~candidate.header_verifies) =>
        /\ last.ret # "Ok"
        /\ FailedChecks \cap (1 .. 6) = {} => last.ret = "InvalidBlockSignature"

----------------------------------------------------------------------------
(* Genesis blocks: Block::genesis and Block::valid_genesis. *)

\* sha256::digest, as the term of its argument: different strings have
\* different digests; a string is a sequence of its parts
digest(string) == <<"sha256">> \o string

\* format!("{},{}", last_hash, digest("Genesis_State_Hash"))
state_hash_input(last_hash) == last_hash \o <<",">> \o digest(<<"Genesis_State_Hash">>)

genesis_last_hash == digest(<<"Genesis_Last_Hash">>)

genesis_state_hash == digest(state_hash_input(genesis_last_hash))

MinerPublicKeys == {"pk_a", "pk_b"}

\* the secret key of a public key
SecretKeyOf(pubkey) == <<"sk", pubkey>>

SecretKeys == {SecretKeyOf(pubkey) : pubkey \in MinerPublicKeys}

GenesisClaims == [pubkey : MinerPublicKeys, valid : BOOLEAN]

\* BlockHeader::genesis: height 0, the genesis last hash, the claim, and a
\* signature by the secret key, which verifies for the key of the claim
header_genesis(claim, secret_key) ==
    [block_height |-> 0,
     last_hash |-> genesis_last_hash,
     claim |-> claim,
     header_verifies |-> (secret_key = SecretKeyOf(claim.pubkey))]

\* Block::genesis: the header and, as hash, the state hash of its last hash;
\* the block has no txns
genesis(claim, secret_key) ==
    [header |-> header_genesis(claim, secret_key),
     hash |-> digest(state_hash_input(header_genesis(claim, secret_key).last_hash)),
     txns_valid |-> TRUE]

\* a genesis check that asks for the hash before the last hash
valid_genesis_hash_first(block) ==
    IF block.header.block_height # 0 THEN "InvalidBlockHeight"
    ELSE IF block.hash # genesis_state_hash THEN "InvalidStateHash"
    ELSE IF block.header.last_hash # genesis_last_hash THEN "InvalidLastHash"
    ELSE IF ~block.header.claim.valid THEN "InvalidClaim"
    ELSE IF ~block.header.header_verifies THEN "InvalidBlockSignature"
    ELSE "Ok"

\* Block::valid_genesis: "Ok" or the reason of the error; valid_data is the
\* constant true, the check of the txns being commented out
valid_genesis(block) ==
    IF block.header.block_height # 0 THEN "InvalidBlockHeight"
    ELSE IF block.header.last_hash # genesis_last_hash THEN "InvalidLastHash"
    ELSE IF block.hash # genesis_state_hash THEN "InvalidStateHash"
    ELSE IF ~block.header.claim.valid THEN "InvalidClaim"
    ELSE IF ~block.header.header_verifies THEN "InvalidBlockSignature"
    ELSE "Ok"

\* the genesis candidates a node may be handed
GenesisLastHashes == {genesis_last_hash, digest(<<"Other_Last_Hash">>)}
GenesisHashes ==
    {digest(state_hash_input(last_hash)) : last_hash \in GenesisLastHashes}
        \cup {digest(<<"Other_State_Hash">>)}

GenesisCandidates ==
    [header : [block_height : Heights, last_hash : GenesisLastHashes,
               claim : GenesisClaims, header_verifies : BOOLEAN],
     hash : GenesisHashes,
     txns_valid : BOOLEAN]

InitGenesis ==
    /\ node_type = "Validator"
    /\ threshold = 0
    /\ dkg_threshold = 0
    /\ membership_config = {}
    /\ bootstrap_quorum_config = {}
    /\ bootstrap_quorum_available_nodes = EmptyMap
    /\ peer_public_keys = EmptyMap
    /\ part_message_store = EmptyMap
    /\ ack_message_store = EmptyMap
    /\ sync_key_gen = FALSE
    /\ dkg_module_part_message_store = EmptyMap
    /\ convergence_block_certificates = EmptyMap
    /\ certificates = [h \in BlockHashes |-> 0]
    /\ dag = {}
    /\ applied = {}
    /\ candidate \in GenesisCandidates
    /\ parent = 0
    /\ dependencies = 0
    /\ peers_reported = {}
    /\ last = NoCall
    /\ nevents = 0
    /\ quorum = NoQuorum
    /\ seed_gen = NoSeedGen
    /\ acks_handled = FALSE
    /\ public_key_set = {}
    /\ secret_key_share = {}
    /\ miner_dag = {}
    /\ dkg_module_ack_message_store = EmptyMap
    /\ dkg_module_peer_public_keys = EmptyMap
    /\ dkg_module_sync_key_gen = FALSE
    /\ quorum_type = {}
    /\ dkg_module_status = "Stopped"

notBlockVars == <<configVars, minerVars, quorumVars, bootVars, dkgVars, dkgModuleVars, certVars,
                  electionVars, keyVars,
                  peers_reported>>

\* Block::genesis builds the candidate
Genesis ==
    /\ nevents = 0
    /\ nevents' = 1
    /\ \E claim \in GenesisClaims, secret_key \in SecretKeys :
           /\ candidate' = genesis(claim, secret_key)
           /\ last' = Call("Genesis", "Ok", <<claim, secret_key>>)
    /\ UNCHANGED <<parent, dependencies>>
    /\ UNCHANGED notBlockVars

\* Block::valid_genesis is asked about the candidate
ValidGenesis ==
    /\ last.op # "ValidGenesis"
    /\ nevents' = nevents + 1
    /\ last' = Call("ValidGenesis", valid_genesis(candidate),
                    IF last.op = "Genesis" THEN last.arg ELSE <<>>)
    /\ UNCHANGED blockVars
    /\ UNCHANGED notBlockVars

NextGenesis == Genesis \/ ValidGenesis

SpecGenesis == InitGenesis /\ [][NextGenesis]_vars

\* the reasons of the genesis checks the candidate fails, by their order
GenesisFailures ==
    {n \in 1 .. 5 :
        \/ n = 1 /\ candidate.header.block_height # 0
        \/ n = 2 /\ candidate.header.last_hash # genesis_last_hash
        \/ n = 3 /\ candidate.hash # genesis_state_hash
        \/ n = 4 /\ ~candidate.header.claim.valid
        \/ n = 5 /\ ~candidate.header.header_verifies}

GenesisReasons ==
    <<"InvalidBlockHeight", "InvalidLastHash", "InvalidStateHash", "InvalidClaim",
      "InvalidBlockSignature">>

----------------------------------------------------------------------------
(* Quorum election: Quorum::new, run_election, get_eligible_claims,         *)
(* get_final_quorum and generate_seed.                                      *)

\* a u64 is the sequence of its four 16-bit limbs, the highest first
LimbMax == 65535
U64(a, b, c, d) == <<a, b, c, d>>
U64Zero == U64(0, 0, 0, 0)
U32Max == U64(0, 0, LimbMax, LimbMax)

\* a < b on u64
U64Less(a, b) ==
    \E i \in 1 .. 4 : a[i] < b[i] /\ \A j \in 1 .. (i - 1) : a[j] = b[j]

\* random_number < u32::MAX as u64
below_u32_max(random_number) == U64Less(random_number, U32Max)

\* the claims needed for an election
MinEligibleClaims == 20

Eligibilities == {"Harvester", "Farmer", "Miner", "None"}
\* the public key of the claim of node i
ElectionPublicKey(i) == <<"pk", i>>
ElectionPublicKeys == {ElectionPublicKey(i) : i \in {1, 2, 3}}

\* election results of claims are 1..MaxResult
MaxResult == 2

\* a claim of a ballot, with the result of get_election_result(quorum_seed)
ElectionClaim(public_key, eligibility, election_result) ==
    [public_key |-> public_key, eligibility |-> eligibility,
     election_result |-> election_result]

\* ((claims.len() as f32) * 0.51).ceil() and ((claims.len() as f32) * 0.65).ceil()
CeilOfPercent(len, percent) == (len * percent + 99) \div 100
num_claims(claims) == CeilOfPercent(Len(claims), 51)
\* a check that asks for no election result
min_election_results_none(claims) == 0
min_election_results(claims) == CeilOfPercent(Len(claims), 65)

\* Quorum::check_validity
check_validity(height) == height > 0

\* Quorum::new, for a valid height
new_quorum(seed, height) ==
    [quorum_seed |-> seed, master_pubkeys |-> <<>>, quorum_pk |-> <<>>,
     election_block_height |-> height]

\* the filter of get_eligible_claims
is_eligible(claim) ==
    claim.eligibility = "Harvester" /\ claim.eligibility = "Farmer"

\* a ballot is never found too small
too_few_claims_never(eligible_claims) == FALSE

too_few_claims(eligible_claims) == Len(eligible_claims) < MinEligibleClaims

\* Quorum::get_eligible_claims: the error, or the claims kept
get_eligible_claims(claims) ==
    LET eligible_claims == SelectSeq(claims, is_eligible)
    IN IF too_few_claims(eligible_claims)
          THEN [err |-> "InsufficientNodesError", claims |-> <<>>]
          ELSE [err |-> "Ok", claims |-> eligible_claims]

\* BTreeMap<U256, Claim> collected from the claims: of the claims with one
\* election result the map keeps the last
election_results(claims) ==
    [result \in {claims[i].election_result : i \in DOMAIN claims} |->
        LET last_index == CHOOSE i \in DOMAIN claims :
                /\ claims[i].election_result = result
                /\ \A j \in DOMAIN claims :
                       claims[j].election_result = result => j <= i
        IN claims[last_index]]

\* the public keys of election_results.values(), which are in the order of the
\* election results, and of them the first num
pubkeys_taken(results, num) ==
    [n \in 1 .. num |->
        LET key == CHOOSE k \in DOMAIN results :
                Cardinality({j \in DOMAIN results : j < k}) = n - 1
        IN results[key].public_key]

\* a check that also refuses the least number of results allowed
pointer_sum_invalid_at_minimum(claims) ==
    Cardinality(DOMAIN election_results(claims)) <= min_election_results(claims)

pointer_sum_invalid(claims) ==
    Cardinality(DOMAIN election_results(claims)) < min_election_results(claims)

\* pubkeys[0..num_claims]: pubkeys holds a key for each election result, at
\* most num_claims of them, and the slice panics when it holds fewer
slice_in_range(claims) ==
    num_claims(claims) <= Cardinality(DOMAIN election_results(claims))

\* Quorum::get_final_quorum: the result, the claims an error carries and the
\* quorum after the call
get_final_quorum(self, claims) ==
    IF self.quorum_seed = U64Zero
       THEN [err |-> "NoSeedError", claims |-> <<>>, quorum |-> self]
    ELSE IF pointer_sum_invalid(claims)
       THEN [err |-> "InvalidPointerSumError", claims |-> claims, quorum |-> self]
    ELSE IF ~slice_in_range(claims)
       THEN [err |-> "Panic", claims |-> <<>>, quorum |-> self]
    ELSE [err |-> "Ok", claims |-> <<>>,
          quorum |-> [self EXCEPT !.master_pubkeys =
                         pubkeys_taken(election_results(claims), num_claims(claims))]]

\* Quorum::run_election
run_election(self, ballot) ==
    IF self.election_block_height = 0
       THEN [err |-> "InvalidChildBlockError", claims |-> <<>>, quorum |-> self]
    ELSE LET eligible_claims == get_eligible_claims(ballot)
         IN IF eligible_claims.err # "Ok"
               THEN [err |-> eligible_claims.err, claims |-> <<>>, quorum |-> self]
               ELSE get_final_quorum(self, eligible_claims.claims)

\* the claim lists handed to get_final_quorum: up to three claims of
\* different public keys, in any order, with any election results
ClaimLists ==
    LET claim_of(public_key, election_result) ==
            ElectionClaim(public_key, "Harvester", election_result)
        Results == 1 .. MaxResult
        Keys == ElectionPublicKeys
    IN {<<>>}
       \cup {<<claim_of(k, r)>> : k \in Keys, r \in Results}
       \cup {<<claim_of(k[1], r[1]), claim_of(k[2], r[2])>> :
                k \in {x \in Keys \X Keys : x[1] # x[2]}, r \in Results \X Results}
       \cup {<<claim_of(k[1], r[1]), claim_of(k[2], r[2]), claim_of(k[3], r[3])>> :
                k \in {x \in Keys \X Keys \X Keys :
                          x[1] # x[2] /\ x[1] # x[3] /\ x[2] # x[3]},
                r \in Results \X Results \X Results}

\* a ballot of n_eligible claims of the eligibility given ("Both": Harvester
\* and Farmer in turn) followed by n_other Miner and None claims in turn; the
\* claim at index i has public key i and election result i
Ballot(eligibility, n_eligible, n_other) ==
    [i \in 1 .. (n_eligible + n_other) |->
        ElectionClaim(
            ElectionPublicKey(i),
            IF i <= n_eligible
               THEN IF eligibility # "Both" THEN eligibility
                    ELSE IF i % 2 = 1 THEN "Harvester" ELSE "Farmer"
               ELSE IF i % 2 = 1 THEN "Miner" ELSE "None",
            i)]

Ballots ==
    {Ballot(eligibility, n_eligible, n_other) :
        eligibility \in {"Harvester", "Farmer", "Both"},
        n_eligible \in {0, 1, 19, 20, 21},
        n_other \in {0, 1, 2}}

\* the u64 values of seeds and of the random numbers drawn
U64Values ==
    {U64Zero, U64(0, 0, 0, 1), U64(0, 0, LimbMax, LimbMax - 1), U32Max,
     U64(0, 1, 0, 0), U64(LimbMax, LimbMax, LimbMax, LimbMax)}

QuorumSeeds == {U64Zero, U64(0, 1, 0, 7)}
ElectionHeights == {1, 5}

InitElection ==
    /\ node_type = "Validator"
    /\ threshold = 0
    /\ dkg_threshold = 0
    /\ membership_config = {}
    /\ bootstrap_quorum_config = {}
    /\ bootstrap_quorum_available_nodes = EmptyMap
    /\ peer_public_keys = EmptyMap
    /\ part_message_store = EmptyMap
    /\ ack_message_store = EmptyMap
    /\ sync_key_gen = FALSE
    /\ dkg_module_part_message_store = EmptyMap
    /\ convergence_block_certificates = EmptyMap
    /\ certificates = [h \in BlockHashes |-> 0]
    /\ dag = {}
    /\ applied = {}
    /\ candidate = 0
    /\ parent = 0
    /\ dependencies = 0
    /\ peers_reported = {}
    /\ last = NoCall
    /\ nevents = 0
    /\ quorum \in {new_quorum(seed, height) :
                      seed \in QuorumSeeds,
                      height \in {h \in ElectionHeights : check_validity(h)}}
    /\ seed_gen = NoSeedGen
    /\ acks_handled = FALSE
    /\ public_key_set = {}
    /\ secret_key_share = {}
    /\ miner_dag = {}
    /\ dkg_module_ack_message_store = EmptyMap
    /\ dkg_module_peer_public_keys = EmptyMap
    /\ dkg_module_sync_key_gen = FALSE
    /\ quorum_type = {}
    /\ dkg_module_status = "Stopped"

notElectionVars == <<configVars, minerVars, quorumVars, bootVars, dkgVars, dkgModuleVars, certVars,
                     blockVars, keyVars, peers_reported, nevents>>

\* a call is made while generate_seed is not running
RunElection ==
    /\ seed_gen = NoSeedGen
    /\ \E ballot \in Ballots :
           LET result == run_election(quorum, ballot)
           IN /\ quorum' = result.quorum
              /\ last' = Call("RunElection", result.err, <<ballot, result.claims>>)
    /\ UNCHANGED seed_gen
    /\ UNCHANGED notElectionVars

GetEligibleClaims ==
    /\ seed_gen = NoSeedGen
    /\ \E ballot \in Ballots :
           LET result == get_eligible_claims(ballot)
           IN last' = Call("GetEligibleClaims", result.err, <<ballot, result.claims>>)
    /\ UNCHANGED <<quorum, seed_gen>>
    /\ UNCHANGED notElectionVars

GetFinalQuorum ==
    /\ seed_gen = NoSeedGen
    /\ \E claims \in ClaimLists :
           LET result == get_final_quorum(quorum, claims)
           IN /\ quorum' = result.quorum
              /\ last' = Call("GetFinalQuorum", result.err, <<claims, result.claims>>)
    /\ UNCHANGED seed_gen
    /\ UNCHANGED notElectionVars

\* Quorum::generate_seed up to the first random number: the payload's height
\* is checked, then the seed of the VVRF; seed_ok is whether verify_seed
\* succeeds, random_number what generate_u64 gives
GenerateSeed ==
    /\ seed_gen = NoSeedGen
    /\ \E height \in {0} \cup ElectionHeights, seed_ok \in BOOLEAN,
          random_number \in U64Values :
           IF ~check_validity(height)
              THEN /\ last' = Call("GenerateSeed", "InvalidChildBlockError", U64Zero)
                   /\ UNCHANGED seed_gen
           ELSE IF ~seed_ok
              THEN /\ last' = Call("GenerateSeed", "InvalidSeedError", U64Zero)
                   /\ UNCHANGED seed_gen
           ELSE /\ seed_gen' = <<random_number>>
                /\ last' = Call("GenerateSeed", "Running", U64Zero)
    /\ UNCHANGED quorum
    /\ UNCHANGED notElectionVars

\* the body of the while loop: another random number
GenerateSeedAgain ==
    /\ seed_gen # NoSeedGen
    /\ below_u32_max(seed_gen[1])
    /\ \E random_number \in U64Values : seed_gen' = <<random_number>>
    /\ UNCHANGED <<quorum, last>>
    /\ UNCHANGED notElectionVars

\* the loop is left and the random number returned
GenerateSeedReturn ==
    /\ seed_gen # NoSeedGen
    /\ ~below_u32_max(seed_gen[1])
    /\ seed_gen' = NoSeedGen
    /\ last' = Call("GenerateSeed", "Ok", seed_gen[1])
    /\ UNCHANGED quorum
    /\ UNCHANGED notElectionVars

\* elect_miner: each claim of the map, in the order the map is iterated, is
\* inserted into an ordered map under its election result
elect_miner(claims) == election_results(claims)

\* get_winner: the first entry of the ordered map
get_winner(results) ==
    LET lowest == CHOOSE k \in DOMAIN results : \A j \in DOMAIN results : k <= j
    IN <<lowest, results[lowest]>>

\* ConsensusModule::handle_miner_election_started; claims lists the claims of
\* the map in the order of its iteration
HandleMinerElectionStarted ==
    /\ seed_gen = NoSeedGen
    /\ \E claims \in ClaimLists \ {<<>>} :
           last' = Call("HandleMinerElectionStarted", "Ok",
                        <<claims, get_winner(elect_miner(claims))>>)
    /\ UNCHANGED <<quorum, seed_gen>>
    /\ UNCHANGED notElectionVars

NextElection ==
    \/ RunElection
    \/ GetEligibleClaims
    \/ GetFinalQuorum
    \/ HandleMinerElectionStarted
    \/ GenerateSeed
    \/ GenerateSeedAgain
    \/ GenerateSeedReturn

SpecElection == InitElection /\ [][NextElection]_vars

\* a claim that is a Harvester's or a Farmer's
is_eligible_either(claim) ==
    claim.eligibility = "Harvester" \/ claim.eligibility = "Farmer"

\* the Harvester and Farmer claims of a ballot
EligibleOf(ballot) == SelectSeq(ballot, is_eligible_either)

\* C14: run_election returns InsufficientNodesError whenever the ballot has
\* fewer than 20 Harvester or Farmer claims, and then leaves the quorum, with
\* its master_pubkeys, as it was.
C14_UndersizedBallotRefused ==
    [][(last'.op = "RunElection" /\ Len(EligibleOf(last'.arg[1])) < MinEligibleClaims)
          => (last'.ret = "InsufficientNodesError" /\ quorum' = quorum)]_vars

\* C14 witness: a ballot of 19 eligible claims was refused on a quorum that an
\* earlier call had given master_pubkeys
C14_Witness ==
    /\ last.op = "RunElection"
    /\ last.ret = "InsufficientNodesError"
    /\ Len(EligibleOf(last.arg[1])) = MinEligibleClaims - 1
    /\ quorum.master_pubkeys # <<>>

\* C15 (as claimed): get_eligible_claims keeps exactly the Harvester and the
\* Farmer claims of the ballot, and a ballot with 20 of them or more yields
\* Ok with exactly those claims.
C15_EligibleClaimsKept ==
    (last.op = "GetEligibleClaims" /\ Len(EligibleOf(last.arg[1])) >= MinEligibleClaims)
        => (last.ret = "Ok" /\ last.arg[2] = EligibleOf(last.arg[1]))

\* the lists of n different indices of the claims whose claims are in
\* ascending order of election result and are followed by no claim left out
LowestClaims(claims, n) ==
    {f \in [1 .. n -> DOMAIN claims] :
        /\ \A a, b \in 1 .. n : a < b =>
               /\ f[a] # f[b]
               /\ claims[f[a]].election_result <= claims[f[b]].election_result
        /\ \A a \in 1 .. n : \A j \in DOMAIN claims :
               (\A b \in 1 .. n : f[b] # j) =>
                   claims[f[a]].election_result <= claims[j].election_result}

\* C16 (as claimed): for N claims and a non-zero seed, get_final_quorum sets
\* master_pubkeys to the public keys of exactly the ceiling of 0.51 N claims
\* with the lowest election results, in ascending order of election result.
C16_LowestClaimsElected ==
    (last.op = "GetFinalQuorum" /\ last.ret = "Ok") =>
        LET claims == last.arg[1]
            n == CeilOfPercent(Len(claims), 51)
        IN /\ Len(quorum.master_pubkeys) = n
           /\ \E f \in LowestClaims(claims, n) :
                  \A a \in 1 .. n : quorum.master_pubkeys[a] = claims[f[a]].public_key

\* C17 (as claimed): for a fixed seed, two ballots of the same claims in
\* different orders give identical master_pubkeys, or the same error, also
\* when two claims have equal election results.
C17_ElectionIndependentOfOrder ==
    last.op = "GetFinalQuorum" =>
        \A claims \in ClaimLists :
            {claims[i] : i \in DOMAIN claims}
                = {last.arg[1][i] : i \in DOMAIN last.arg[1]}
            => /\ get_final_quorum(quorum, claims).err = last.ret
               /\ get_final_quorum(quorum, claims).quorum.master_pubkeys
                      = quorum.master_pubkeys

\* the number of different election results of the claims
DistinctResults(claims) ==
    Cardinality({claims[i].election_result : i \in DOMAIN claims})

\* C18: get_final_quorum returns NoSeedError when quorum_seed is 0; with a
\* non-zero seed it returns InvalidPointerSumError exactly when the claims
\* have fewer different election results than the ceiling of 0.65 N, and the
\* error carries the claims and master_pubkeys stays as it was.
C18_PointerSumChecked ==
    [][last'.op = "GetFinalQuorum" =>
          /\ quorum.quorum_seed = U64Zero => last'.ret = "NoSeedError"
          /\ quorum.quorum_seed # U64Zero =>
                 ( (last'.ret = "InvalidPointerSumError")
                   = (DistinctResults(last'.arg[1])
                          < CeilOfPercent(Len(last'.arg[1]), 65)) )
          /\ last'.ret = "InvalidPointerSumError" =>
                 /\ last'.arg[2] = last'.arg[1]
                 /\ quorum'.master_pubkeys = quorum.master_pubkeys]_vars

\* C18 witness: claims with too few different election results were refused
\* on a quorum that an earlier call had given master_pubkeys
C18_Witness ==
    /\ last.op = "GetFinalQuorum"
    /\ last.ret = "InvalidPointerSumError"
    /\ Len(last.arg[1]) = 3
    /\ quorum.master_pubkeys # <<>>

\* C40: get_final_quorum does not index past the public keys it has
\* collected: when the InvalidPointerSum check passes for N claims they have
\* at least the ceiling of 0.51 N different election results, so the slice
\* pubkeys[0..num_claims] is in range and the call returns without a panic.
C40_SliceInRange ==
    /\ last.op \in {"GetFinalQuorum", "RunElection"} => last.ret # "Panic"
    /\ (last.op = "GetFinalQuorum" /\ last.ret = "Ok") =>
           /\ DistinctResults(last.arg[1]) >= CeilOfPercent(Len(last.arg[1]), 51)
           /\ Len(quorum.master_pubkeys) = CeilOfPercent(Len(last.arg[1]), 51)

\* three claims with two different election results, as many as the slice
\* takes, have given the quorum two public keys
C40_Witness ==
    /\ last.op = "GetFinalQuorum"
    /\ last.ret = "Ok"
    /\ Len(last.arg[1]) = 3
    /\ DistinctResults(last.arg[1]) = 2
    /\ Len(quorum.master_pubkeys) = 2

\* C20 (as claimed): every seed generate_seed returns is above u32::MAX; a
\* random number at or below u32::MAX, u32::MAX itself too, is never returned.
C20_SeedAboveU32Max ==
    (last.op = "GenerateSeed" /\ last.ret = "Ok") => U64Less(U32Max, last.arg)

\* the place of a claim in the byte order of the claim hashes: the claims of
\* different public keys have different hashes
ClaimHashRank(claim) == claim.public_key[2]

\* C21 (as claimed): the winner of handle_miner_election_started is the claim
\* with the lowest election result of the claims supplied and, of several
\* claims with that result, the one whose hash is first, whatever the order
\* in which the claims map is iterated.
C21_LowestResultLowestHashWins ==
    last.op = "HandleMinerElectionStarted" =>
        LET claims == last.arg[1]
            winner == last.arg[2][2]
        IN /\ \E i \in DOMAIN claims : claims[i] = winner
           /\ last.arg[2][1] = winner.election_result
           /\ \A j \in DOMAIN claims :
                  /\ winner.election_result <= claims[j].election_result
                  /\ claims[j].election_result = winner.election_result
                         => ClaimHashRank(winner) <= ClaimHashRank(claims[j])

\* the valid shares cached for a block hash are of different nodes
ValidSharesOfDistinctNodes(block_hash) ==
    /\ \A share \in CachedShares(block_hash) : share.signature = "valid"
    /\ \A a, b \in CachedShares(block_hash) : a.node_idx = b.node_idx => a = b

C23_ValidShareCached ==
    [][last'.op \in {"ConvergenceBlockPartialSign", "PeerConvergenceBlockSign"} =>
          IF last'.arg[2].signature = "valid"
             THEN /\ last'.arg[1] \in DOMAIN convergence_block_certificates'
                  /\ last'.arg[2] \in convergence_block_certificates'[last'.arg[1]]
             ELSE UNCHANGED convergence_block_certificates]_vars

C26_AppliedOnlyIfCertified ==
    [][(last'.op = "ConvergenceBlockReceived" /\ last'.ret = "Ok") =>
          \/ last'.arg[1].certificate
          \/ certificates'[last'.arg[1].hash] > certificates[last'.arg[1].hash]]_vars

----------------------------------------------------------------------------
(* The key sets of the DKG: handle_all_ack_messages and generate_keysets of *)
(* the consensus module, and the DkgEngine behind them.                     *)

\* a key set generated without the Acks having been handled
generate_key_sets_ok_without_acks(is_ready) == sync_key_gen /\ is_ready

\* DkgEngine::generate_key_sets succeeds on a SyncKeyGen instance that has
\* handled the Acks and is ready; is_ready is the answer of the instance
generate_key_sets_ok(is_ready) == sync_key_gen /\ acks_handled /\ is_ready

\* handle_all_ack_messages: DkgEngine::handle_ack_messages hands the stored
\* Acks to the SyncKeyGen instance; acks_valid is the answer of the instance
HandleAllAcks ==
    /\ Step
    /\ \E acks_valid \in BOOLEAN :
           /\ acks_handled' = (acks_handled \/ (sync_key_gen /\ acks_valid))
           /\ last' = Call("HandleAllAcks", Result(sync_key_gen /\ acks_valid), SelfId)
    /\ UNCHANGED <<public_key_set, secret_key_share>>
    /\ UNCHANGED <<configVars, minerVars, quorumVars, bootVars, dkgVars, dkgModuleVars, certVars,
                   blockVars, electionVars, peers_reported>>

\* generate_keysets: the key sets of a participant
GenerateKeySet ==
    /\ Step
    /\ \E is_ready \in BOOLEAN :
           IF generate_key_sets_ok(is_ready)
              THEN /\ public_key_set' = {"public_key_set"}
                   /\ secret_key_share' = {"secret_key_share"}
                   /\ last' = Call("GenerateKeySet", "Ok", SelfId)
              ELSE /\ UNCHANGED <<public_key_set, secret_key_share>>
                   /\ last' = Call("GenerateKeySet", "Err", SelfId)
    /\ UNCHANGED acks_handled
    /\ UNCHANGED <<configVars, minerVars, quorumVars, bootVars, dkgVars, dkgModuleVars, certVars,
                   blockVars, electionVars, peers_reported>>

NextKeyGen ==
    \/ QuorumMembershipAssigned
    \/ GeneratePartialCommitment
    \/ PartAcknowledged
    \/ HandleAllAcks
    \/ GenerateKeySet

SpecKeyGen == InitDkg /\ [][NextKeyGen]_vars

C28_PeerKeyWriteOnce ==
    [][( /\ last'.op = "NodeAddedToPeerList"
         /\ ~( /\ bootstrap_quorum_config # {}
               /\ node_type = "Bootstrap"
               /\ all_nodes_available(bootstrap_quorum_available_nodes') )
         /\ last'.arg[1] \in DOMAIN peer_public_keys )
        => /\ peer_public_keys' = peer_public_keys
           /\ peer_public_keys[last'.arg[1]] # last'.arg[2] => last'.ret = "Err"]_vars

----------------------------------------------------------------------------
(* NodeRuntime::handle_block_received: the three kinds of block. *)

\* handle_genesis_block_received; append_ok and apply_ok are the answers of
\* the DAG (append_genesis) and of the state store (apply_block)
GenesisBlockReceived ==
    /\ CertStep
    /\ \E block_hash \in BlockHashes, append_ok \in BOOLEAN, apply_ok \in BOOLEAN :
           IF received_block_refused(append_ok)
           THEN /\ last' = Call("GenesisBlockReceived", "Err", <<block_hash, append_ok>>)
                /\ UNCHANGED certVars
           ELSE /\ dag' = dag \cup {block_hash}
                /\ applied' = IF apply_ok THEN applied \cup {block_hash} ELSE applied
                /\ last' = Call("GenesisBlockReceived", Result(apply_ok),
                             <<block_hash, append_ok>>)
                /\ UNCHANGED <<convergence_block_certificates, certificates>>
    /\ UNCHANGED notCertVars

\* handle_proposal_block_received: after the block has been appended to the
\* DAG the handler reaches todo!(), which panics
ProposalBlockReceived ==
    /\ CertStep
    /\ \E block_hash \in BlockHashes, append_ok \in BOOLEAN :
           IF ~append_ok
           THEN /\ last' = Call("ProposalBlockReceived", "Err", block_hash)
                /\ UNCHANGED certVars
           ELSE /\ dag' = dag \cup {block_hash}
                /\ last' = Call("ProposalBlockReceived", "Panic", block_hash)
                /\ UNCHANGED <<convergence_block_certificates, certificates, applied>>
    /\ UNCHANGED notCertVars

NextBlockReceived ==
    \/ GenesisBlockReceived
    \/ ProposalBlockReceived
    \/ ConvergenceBlockReceived

SpecBlockReceived == InitCert /\ [][NextBlockReceived]_vars

\* C29 (as claimed): handle_block_received returns Ok or an Err for every
\* block, of every kind, in every state of the node and of the DAG, and does
\* not panic.
C29_BlockReceivedNeverPanics ==
    last.op \in {"GenesisBlockReceived", "ProposalBlockReceived", "ConvergenceBlockReceived"}
        => last.ret \in {"Ok", "Err"}

----------------------------------------------------------------------------
(* TxnValidator::validate(account_state, txn). *)

\* amounts, credits and debits are 0..MaxTxnAmount
MaxTxnAmount == 2

\* an Account of the state snapshot; its debits do not exceed its credits
Accounts == {account \in [credits : 0 .. MaxTxnAmount, debits : 0 .. MaxTxnAmount] :
                account.debits <= account.credits}

\* the state snapshot: the account of the sender, or no account of the sender
AccountStates == {EmptyMap} \cup {[address \in {"sender"} |-> account] : account \in Accounts}

\* a transaction: whether its sender address parses as a public key, its
\* amount, and whether its public key, sender address, receiver address,
\* signature and timestamp pass their checks
Txns == [sender_parses : BOOLEAN, amount : 0 .. MaxTxnAmount, public_key_ok : BOOLEAN,
         sender_address_ok : BOOLEAN, receiver_address_ok : BOOLEAN,
         signature_ok : BOOLEAN, timestamp_ok : BOOLEAN]

\* TxnValidator::validate_amount; account_state.get(..).unwrap() panics when
\* the snapshot has no account of the sender
validate_amount(account_state, txn) ==
    IF ~txn.sender_parses THEN "SenderAddressIncorrect"
    ELSE IF "sender" \notin DOMAIN account_state THEN "Panic"
    ELSE IF account_state["sender"].credits - account_state["sender"].debits < txn.amount
         THEN "TxnAmountIncorrect"
    ELSE "Ok"

\* TxnValidator::validate_structure: the checks in the order of the and_then
\* chain, the first error returned
validate_structure(account_state, txn) ==
    IF validate_amount(account_state, txn) # "Ok" THEN validate_amount(account_state, txn)
    ELSE IF ~txn.public_key_ok THEN "SenderPublicKeyIncorrect"
    ELSE IF ~txn.sender_address_ok THEN "SenderAddressMissing"
    ELSE IF ~txn.receiver_address_ok THEN "ReceiverAddressMissing"
    ELSE IF ~txn.signature_ok THEN "TxnSignatureIncorrect"
    ELSE IF ~txn.timestamp_ok THEN "OutOfBoundsTimestamp"
    ELSE "Ok"

InitTxn ==
    /\ node_type = "Validator"
    /\ InitRest

\* TxnValidator::validate
Validate ==
    /\ \E account_state \in AccountStates, txn \in Txns :
           last' = Call("Validate", validate_structure(account_state, txn),
                        <<account_state, txn>>)
    /\ UNCHANGED <<configVars, minerVars, quorumVars, bootVars, dkgVars, dkgModuleVars, certVars,
                   blockVars, electionVars, keyVars, peers_reported, nevents>>

SpecTxn == InitTxn /\ [][Validate]_vars

\* C30 (as claimed): validate returns AccountNotFound, and does not panic, for
\* a transaction whose sender address parses and whose sender has no account
\* in the state snapshot, and TxnAmountIncorrect for a sender whose balance,
\* credits less debits, is smaller than the amount.
C30_MissingAccountReported ==
    (last.op = "Validate" /\ last.arg[2].sender_parses) =>
        LET account_state == last.arg[1]
            txn == last.arg[2]
        IN IF "sender" \notin DOMAIN account_state
              THEN last.ret = "AccountNotFound"
              ELSE account_state["sender"].credits - account_state["sender"].debits
                       < txn.amount => last.ret = "TxnAmountIncorrect"

----------------------------------------------------------------------------
(* ConsensusModule::validate_vote(vote, farmer_quorum_threshold). *)

TxnIds == {"t1", "t2"}
FarmerQuorumKeys == {"fk1", "fk2"}
\* a Vote: the transaction voted on, the key of the farmer quorum, the voter
Votes == [txn_id : TxnIds, quorum_public_key : FarmerQuorumKeys, farmer_id : NodeIds]
\* farmer_quorum_threshold
FarmerQuorumThresholds == 0 .. MaxThreshold

\* validate_vote: the body is commented out; the vote is kept nowhere (the
\* module has no votes pool) and nothing is sent
validate_vote(vote, farmer_quorum_threshold) ==
    last' = CallOut("VoteReceived", "Unit", <<vote, farmer_quorum_threshold>>, {})

VoteReceived ==
    /\ Step
    /\ \E vote \in Votes, farmer_quorum_threshold \in FarmerQuorumThresholds :
           validate_vote(vote, farmer_quorum_threshold)
    /\ UNCHANGED <<configVars, minerVars, quorumVars, bootVars, dkgVars, dkgModuleVars, certVars,
                   blockVars, electionVars, keyVars, peers_reported>>

SpecVote == InitDkg /\ [][VoteReceived]_vars

\* C31 (as claimed): TransactionCertificateRequested is sent for a transaction
\* when its votes reach the threshold and it is not in the filter of certified
\* transactions; a vote received with a threshold of at most one reaches the
\* threshold by itself, and the filter of a new module is empty.
C31_CertificateRequestedAtThreshold ==
    (last.op = "VoteReceived" /\ last.arg[2] <= 1) =>
        \E event \in last.out : /\ event.kind = "TransactionCertificateRequested"
                                /\ event.txn_id = last.arg[1].txn_id

\* C34 (as claimed): belongs_to_correct_quorum refuses the node without a
\* quorum membership and the member of a quorum of another kind, so a member
\* of a Farmer quorum appends no received genesis or convergence block to
\* the DAG.
C34_FarmerMemberAppendsNoBlock ==
    [][last'.op \in {"GenesisBlockReceived", "ConvergenceBlockReceived"} =>
          /\ membership_config = {} => (last'.ret = "Err" /\ dag' = dag)
          /\ (\E membership \in membership_config : membership.quorum_kind = "Farmer")
                 => (last'.ret = "Err" /\ dag' = dag)]_vars

\* C35: handle_genesis_block_received and handle_convergence_block_received
\* apply a block to the state store only after it has been appended to the
\* DAG, and when the role check or the append to the DAG fails they return
\* Err and leave the state store as it was.
C35_AppendedBeforeApplied ==
    [][last'.op \in {"GenesisBlockReceived", "ConvergenceBlockReceived"} =>
          LET hash == IF last'.op = "GenesisBlockReceived"
                         THEN last'.arg[1] ELSE last'.arg[1].hash
              role_check_fails == \/ ~has_required_node_type("Validator")
                                  \/ ~belongs_to_correct_quorum("Harvester")
              append_fails == ~last'.arg[2]
          IN /\ applied' # applied => hash \in dag'
             /\ (role_check_fails \/ append_fails) =>
                    (last'.ret = "Err" /\ applied' = applied)]_vars

\* a convergence block the DAG did not take has been refused by a node with a
\* quorum membership, after another block had been applied
C35_Witness ==
    /\ last.op = "ConvergenceBlockReceived"
    /\ membership_config # {}
    /\ ~last.arg[2]
    /\ last.ret = "Err"
    /\ applied # {}
    /\ last.arg[1].hash \notin applied

\* C36 (as claimed): the block DAG is one structure for the node: a block the
\* state driver has appended to the DAG is seen by the miner of the same
\* NodeRuntime.
C36_MinerSeesAppendedBlocks == dag \subseteq miner_dag

----------------------------------------------------------------------------
(* NodeRuntime: the operations behind has_required_node_type, on a node of  *)
(* any node type.                                                           *)

InitRuntime ==
    /\ node_type \in NodeTypes
    /\ InitCertRest

\* produce_genesis_transactions
ProduceGenesisTransactions ==
    /\ CertStep
    /\ last' = Call("ProduceGenesisTransactions",
                    Result(has_required_node_type("Bootstrap")), 0)
    /\ UNCHANGED <<certVars, notCertVars>>

\* mine_genesis_block
MineGenesisBlock ==
    /\ CertStep
    /\ last' = Call("MineGenesisBlock", Result(has_required_node_type("Miner")), 0)
    /\ UNCHANGED <<certVars, notCertVars>>

\* mine_convergence_block; mined tells whether the miner returned a block
MineConvergenceBlock ==
    /\ CertStep
    /\ \E mined \in BOOLEAN :
           last' = Call("MineConvergenceBlock",
                        Result(has_required_node_type("Miner") /\ mined), mined)
    /\ UNCHANGED <<certVars, notCertVars>>

\* NodeRuntime::certify_convergence_block: the result of the consensus
\* module's certification is dropped; header_known is the answer of
\* last_confirmed_block_header
NodeCertifyConvergenceBlock ==
    /\ CertStep
    /\ \E block_hash \in BlockHashes, header_known \in BOOLEAN :
           \E sig_shares \in sig_shares_choices(block_hash) :
               IF \/ ~has_required_node_type("Validator")
                  \/ ~belongs_to_correct_quorum("Harvester")
                  \/ ~header_known
               THEN /\ last' = Call("NodeCertifyConvergenceBlock", "Err", block_hash)
                    /\ UNCHANGED certVars
               ELSE /\ precheck_convergence_block(block_hash)
                    /\ certificates' =
                           certified(block_hash, certify_result(block_hash, sig_shares))
                    /\ last' = Call("NodeCertifyConvergenceBlock", "Ok", block_hash)
                    /\ UNCHANGED <<convergence_block_certificates, dag, applied>>
    /\ UNCHANGED notCertVars

NextRuntime ==
    \/ ProduceGenesisTransactions
    \/ MineGenesisBlock
    \/ MineConvergenceBlock
    \/ NodeCertifyConvergenceBlock

SpecRuntime == InitRuntime /\ [][NextRuntime]_vars

\* C33 (as claimed): the operations behind has_required_node_type are refused
\* on a node of another node type: mine_genesis_block and
\* mine_convergence_block return Err on a node that is not a Miner,
\* produce_genesis_transactions on a node that is not a Bootstrap node, and
\* certify_convergence_block on a node that is not a Validator.
C33_WrongNodeTypeRefused ==
    /\ (last.op \in {"MineGenesisBlock", "MineConvergenceBlock"} /\ node_type # "Miner")
           => last.ret = "Err"
    /\ (last.op = "ProduceGenesisTransactions" /\ node_type # "Bootstrap")
           => last.ret = "Err"
    /\ (last.op = "NodeCertifyConvergenceBlock" /\ node_type # "Validator")
           => last.ret = "Err"

----------------------------------------------------------------------------
(* The DkgModule actor: DkgModule::new, the actor loop around               *)
(* Handler::handle, and the arms of handle.                                 *)

QuorumTypes == {{}} \cup {{quorum_kind} : quorum_kind \in QuorumKinds}

\* the peer keys registered with the engine of the module before it starts:
\* no key, or the keys of all nodes
DkgModulePeerKeys == {EmptyMap, [id \in NodeIds |-> ValidatorPublicKey(id)]}

\* DkgModule::new: status Stopped, empty stores
InitDkgModule ==
    /\ node_type \in NodeTypes
    /\ threshold = 0
    /\ dkg_threshold = 0
    /\ membership_config = {}
    /\ bootstrap_quorum_config = {}
    /\ bootstrap_quorum_available_nodes = EmptyMap
    /\ peer_public_keys = EmptyMap
    /\ part_message_store = EmptyMap
    /\ ack_message_store = EmptyMap
    /\ sync_key_gen = FALSE
    /\ dkg_module_part_message_store = EmptyMap
    /\ dkg_module_ack_message_store = EmptyMap
    /\ dkg_module_peer_public_keys \in DkgModulePeerKeys
    /\ dkg_module_sync_key_gen = FALSE
    /\ quorum_type \in QuorumTypes
    /\ dkg_module_status = "Stopped"
    /\ convergence_block_certificates = EmptyMap
    /\ certificates = [h \in BlockHashes |-> 0]
    /\ dag = {}
    /\ applied = {}
    /\ miner_dag = {}
    /\ candidate = 0
    /\ parent = 0
    /\ dependencies = 0
    /\ peers_reported = {}
    /\ last = NoCall
    /\ nevents = 0
    /\ quorum = NoQuorum
    /\ seed_gen = NoSeedGen
    /\ acks_handled = FALSE
    /\ public_key_set = {}
    /\ secret_key_share = {}

notDkgModuleVars == <<configVars, minerVars, quorumVars, bootVars, dkgVars, certVars,
                      blockVars, electionVars, peers_reported>>

\* the actor loop: an event is handed to handle while the actor is running
Delivered == dkg_module_status = "Running" /\ Step

\* the actor loop: the status after handle has returned a state
status_after(returned) == IF returned = "Stopped" THEN "Terminating" ELSE "Running"

\* a handler that returns Running for every event
returned_state_never_stopped(event) == "Running"

\* Handler::handle: `return Ok(ActorState::Stopped)` in the arm of Event::Stop,
\* and Ok(ActorState::Running) for every other event, at the end of the match
\* or, for DkgInitiate, in its arm
returned_state(event) == IF event = "Stop" THEN "Stopped" ELSE "Running"

\* ActorImpl::start
DkgModuleStart ==
    /\ dkg_module_status = "Stopped"
    /\ dkg_module_status' = "Running"
    /\ last' = Call("Start", "Ok", 0)
    /\ UNCHANGED <<dkg_module_part_message_store, dkg_module_ack_message_store,
                   dkg_module_peer_public_keys, dkg_module_sync_key_gen, quorum_type,
                   keyVars, notDkgModuleVars, nevents>>

\* Event::Stop
DkgModuleStop ==
    /\ Delivered
    /\ last' = Call("Stop", returned_state("Stop"), 0)
    /\ dkg_module_status' = status_after(returned_state("Stop"))
    /\ UNCHANGED <<dkg_module_part_message_store, dkg_module_ack_message_store,
                   dkg_module_peer_public_keys, dkg_module_sync_key_gen, quorum_type,
                   keyVars, notDkgModuleVars>>

\* a node that takes part in the DKG whatever its quorum type
takes_part_in_dkg_without_quorum_type == quorum_type = {}

\* Event::DkgInitiate: self.quorum_type.clone().is_some()
takes_part_in_dkg == quorum_type # {}

\* DkgEngine::generate_sync_keygen_instance: for a participant whose own key is
\* registered it makes the SyncKeyGen instance, keeps the Part of the node in
\* the Part store and returns PartMessageGenerated(node_idx, part)
generate_sync_keygen_instance_ok ==
    /\ node_type \notin {"Bootstrap", "Miner"}
    /\ SelfId \in DOMAIN dkg_module_peer_public_keys

\* Event::DkgInitiate
DkgInitiate ==
    /\ Delivered
    /\ \E part \in Parts :
           IF takes_part_in_dkg /\ generate_sync_keygen_instance_ok
           THEN /\ dkg_module_sync_key_gen' = TRUE
                /\ dkg_module_part_message_store' =
                       OrInsert(dkg_module_part_message_store, SelfId, part)
                /\ last' = CallOut("DkgInitiate", returned_state("DkgInitiate"), 0,
                                   {[kind |-> "PartMessage", node_idx |-> SelfId,
                                     bytes |-> Serialize(part)]})
           ELSE /\ UNCHANGED <<dkg_module_sync_key_gen, dkg_module_part_message_store>>
                /\ last' = CallOut("DkgInitiate", returned_state("DkgInitiate"), 0, {})
    /\ dkg_module_status' = status_after(returned_state("DkgInitiate"))
    /\ UNCHANGED <<dkg_module_ack_message_store, dkg_module_peer_public_keys, quorum_type,
                   keyVars, notDkgModuleVars>>

\* Event::PartMessage
DkgModulePartMessage ==
    /\ Delivered
    /\ \E node_idx \in NodeIds, bytes \in PartBytes :
           /\ dkg_module_part_message_store' =
                  IF Deserialize(bytes) = {}
                     THEN dkg_module_part_message_store
                     ELSE OrInsert(dkg_module_part_message_store, node_idx,
                                   CHOOSE part \in Deserialize(bytes) : TRUE)
           /\ last' = CallOut("DkgModulePartMessage", returned_state("PartMessage"),
                                                      <<node_idx, bytes>>, {})
    /\ dkg_module_status' = status_after(returned_state("PartMessage"))
    /\ UNCHANGED <<dkg_module_ack_message_store, dkg_module_peer_public_keys,
                   dkg_module_sync_key_gen, quorum_type, keyVars, notDkgModuleVars>>

\* DkgEngine::ack_partial_commitment of the module's engine: it needs the
\* SyncKeyGen instance and the Part of the sender, and keeps the Ack under
\* (sender_id, node_idx), where the module reads it
dkg_module_ack_partial_commitment_ok(sender_id) ==
    /\ dkg_module_sync_key_gen
    /\ sender_id \in DOMAIN dkg_module_part_message_store

\* Event::AckPartCommitment(sender_id); ack is the Ack the engine makes
AckPartCommitment ==
    /\ Delivered
    /\ \E sender_id \in NodeIds, ack \in Acks :
           IF /\ sender_id \in DOMAIN dkg_module_part_message_store
              /\ dkg_module_ack_partial_commitment_ok(sender_id)
           THEN LET acks == OrInsert(dkg_module_ack_message_store,
                                     <<sender_id, SelfId>>, ack)
                IN /\ dkg_module_ack_message_store' = acks
                   /\ last' = CallOut("AckPartCommitment", returned_state("AckPartCommitment"),
                                                           sender_id,
                                      {[kind |-> "SendAck", node_idx |-> SelfId,
                                        sender_id |-> sender_id,
                                        ack |-> acks[<<sender_id, SelfId>>]]})
           ELSE /\ UNCHANGED dkg_module_ack_message_store
                /\ last' = CallOut("AckPartCommitment", returned_state("AckPartCommitment"),
                                                        sender_id, {})
    /\ dkg_module_status' = status_after(returned_state("AckPartCommitment"))
    /\ UNCHANGED <<dkg_module_part_message_store, dkg_module_peer_public_keys,
                   dkg_module_sync_key_gen, quorum_type, keyVars, notDkgModuleVars>>

\* Event::HandleAllAcks; acks_valid is the answer of the SyncKeyGen instance
DkgModuleHandleAllAcks ==
    /\ Delivered
    /\ \E acks_valid \in BOOLEAN :
           /\ acks_handled' = (acks_handled \/ (dkg_module_sync_key_gen /\ acks_valid))
           /\ last' = CallOut("DkgModuleHandleAllAcks", returned_state("HandleAllAcks"),
                                                        acks_valid, {})
    /\ dkg_module_status' = status_after(returned_state("HandleAllAcks"))
    /\ UNCHANGED <<dkg_module_part_message_store, dkg_module_ack_message_store,
                   dkg_module_peer_public_keys, dkg_module_sync_key_gen, quorum_type,
                   public_key_set, secret_key_share, notDkgModuleVars>>

\* Event::GenerateKeySet; is_ready is the answer of the SyncKeyGen instance
DkgModuleGenerateKeySet ==
    /\ Delivered
    /\ \E is_ready \in BOOLEAN :
           IF dkg_module_sync_key_gen /\ acks_handled /\ is_ready
           THEN /\ public_key_set' = {"public_key_set"}
                /\ secret_key_share' = {"secret_key_share"}
                /\ last' = CallOut("DkgModuleGenerateKeySet", returned_state("GenerateKeySet"),
                                                              is_ready,
                                   {[kind |-> "QuorumKey"],
                                    [kind |-> "NamespaceRegistration"]})
           ELSE /\ UNCHANGED <<public_key_set, secret_key_share>>
                /\ last' = CallOut("DkgModuleGenerateKeySet", returned_state("GenerateKeySet"),
                                                              is_ready, {})
    /\ dkg_module_status' = status_after(returned_state("GenerateKeySet"))
    /\ UNCHANGED <<dkg_module_part_message_store, dkg_module_ack_message_store,
                   dkg_module_peer_public_keys, dkg_module_sync_key_gen, quorum_type,
                   acks_handled, notDkgModuleVars>>

\* the other arms: Event::HarvesterPublicKey, whose key is kept in a field that
\* no arm reads, Event::GeneratePayloadForPeerRegistration, Event::NoOp and
\* every other event
OtherEvents == {"HarvesterPublicKey", "GeneratePayloadForPeerRegistration", "NoOp", "Other"}

DkgModuleOtherEvent ==
    /\ Delivered
    /\ \E event \in OtherEvents :
           /\ last' = CallOut("DkgModuleOtherEvent", returned_state(event), event,
                              IF /\ event = "GeneratePayloadForPeerRegistration"
                                 /\ secret_key_share # {}
                                 /\ public_key_set # {}
                                 THEN {[kind |-> "PeerRegistration"]}
                                 ELSE {})
           /\ dkg_module_status' = status_after(returned_state(event))
    /\ UNCHANGED <<dkg_module_part_message_store, dkg_module_ack_message_store,
                   dkg_module_peer_public_keys, dkg_module_sync_key_gen, quorum_type,
                   keyVars, notDkgModuleVars>>

NextDkgModule ==
    \/ DkgModuleStart
    \/ DkgModuleStop
    \/ DkgInitiate
    \/ DkgModulePartMessage
    \/ AckPartCommitment
    \/ DkgModuleHandleAllAcks
    \/ DkgModuleGenerateKeySet
    \/ DkgModuleOtherEvent

SpecDkgModule == InitDkgModule /\ [][NextDkgModule]_vars

\* the SendAck events among the events of a call
SendAcks(call) == {event \in call.out : event.kind = "SendAck"}

\* C37: the DkgModule sends SendAck on AckPartCommitment(sender) only if a
\* Part of the sender is in its Part store, and with no such Part it sends no
\* SendAck and leaves the DKG state as it was; DkgInitiate on a node with a
\* quorum type and its peer keys registered sends a PartMessage with the
\* index of the node, and an AckPartCommitment for that index right after it
\* sends SendAck(node_idx, sender_id, ack).
C37_SendAckOnlyForStoredPart ==
    [][/\ last'.op = "AckPartCommitment" =>
              IF last'.arg \in DOMAIN dkg_module_part_message_store
                 THEN \A event \in SendAcks(last') :
                          event.node_idx = SelfId /\ event.sender_id = last'.arg
                 ELSE /\ SendAcks(last') = {}
                      /\ UNCHANGED <<dkg_module_part_message_store,
                                     dkg_module_ack_message_store,
                                     dkg_module_peer_public_keys,
                                     dkg_module_sync_key_gen, keyVars>>
       /\ ( /\ last'.op = "DkgInitiate"
            /\ quorum_type # {}
            /\ generate_sync_keygen_instance_ok ) =>
              \E event \in last'.out :
                  event.kind = "PartMessage" /\ event.node_idx = SelfId
       /\ ( /\ last.op = "DkgInitiate"
            /\ \E event \in last.out :
                   event.kind = "PartMessage" /\ event.node_idx = SelfId
            /\ last'.op = "AckPartCommitment"
            /\ last'.arg = SelfId ) =>
              \E event \in SendAcks(last') :
                  /\ event.node_idx = SelfId
                  /\ event.sender_id = SelfId
                  /\ event.ack \in Acks]_vars

\* the SendAck of the node for its own Part has been sent right after the
\* DkgInitiate that made the Part
C37_Witness ==
    /\ last.op = "AckPartCommitment"
    /\ last.arg = SelfId
    /\ nevents = 2
    /\ SendAcks(last) # {}
    /\ <<SelfId, SelfId>> \in DOMAIN dkg_module_ack_message_store

\* C38: the DkgModule actor starts in status Stopped; handle returns Stopped
\* for Event::Stop only and Running for every other event, also for an event
\* whose DKG step fails, so the actor keeps running until a Stop is
\* delivered, and after the Stop it handles no event.
C38_RunningUntilStop ==
    /\ [](last = NoCall => dkg_module_status = "Stopped")
    /\ [][/\ last'.op # "Start" =>
                 /\ dkg_module_status = "Running"
                 /\ last'.ret = (IF last'.op = "Stop" THEN "Stopped" ELSE "Running")
                 /\ dkg_module_status' =
                        (IF last'.op = "Stop" THEN "Terminating" ELSE "Running")
          /\ dkg_module_status = "Terminating" => UNCHANGED vars]_vars

\* the actor of a node with a quorum type has handled two events that made no
\* SyncKeyGen instance and stayed running, and the Stop after them ended it
C38_Witness ==
    /\ last.op = "Stop"
    /\ dkg_module_status = "Terminating"
    /\ nevents = 3
    /\ ~dkg_module_sync_key_gen
    /\ quorum_type # {}

----------------------------------------------------------------------------
(* Block::mine(claim, last_block, txns, ..): the block mined on top of       *)
(* last_block, or no block.                                                 *)

\* units of time, in nanoseconds
NANO == 1
MICRO == NANO * 1000
MILLI == MICRO * 1000
SECOND == MILLI * 1000

\* timestamps of the last block, and of the header BlockHeader::new makes
LastTimestamps == {0, SECOND}
HeaderTimestamps == {0, SECOND - 1, SECOND, 2 * SECOND - 1, 2 * SECOND}
Epochs == {0, 1}
\* the utility of the last block, and the sum of the amounts of txns
Utilities == {0, 200}

LastBlocks == [height : Heights, timestamp : LastTimestamps, epoch : Epochs,
               utility : Utilities]

\* a time check that takes a header older than the last block
too_soon_unless_older(timestamp, last_timestamp) ==
    timestamp >= last_timestamp /\ ((timestamp - last_timestamp) \div SECOND) < 1

\* header.timestamp.checked_sub(last_block.header.timestamp): no block when
\* the difference is not defined, and when it is less than a second
too_soon(timestamp, last_timestamp) ==
    IF timestamp >= last_timestamp
       THEN ((timestamp - last_timestamp) \div SECOND) < 1
       ELSE TRUE

\* the Block that mine builds; (utility as f64 * -0.01) as u128 is 0
mined_block(last_block, timestamp, utility_amount, epoch) ==
    [timestamp |-> timestamp,
     height |-> last_block.height + 1,
     threshold_signature |-> {},
     epoch |-> epoch,
     utility |-> IF epoch # last_block.epoch THEN utility_amount
                 ELSE utility_amount + last_block.utility]

adjustment_next_epoch(last_block, utility_amount, epoch) ==
    IF epoch # last_block.epoch /\ utility_amount > last_block.utility
       THEN utility_amount \div 100
       ELSE 0

\* Block::mine; root_known tells whether network_state.root() is Some: the
\* unwrap of a missing root panics. parent is the last block handed in and
\* candidate the block returned, 0 for no block
Mine ==
    /\ \E last_block \in LastBlocks, timestamp \in HeaderTimestamps,
          utility_amount \in Utilities, epoch \in Epochs, root_known \in BOOLEAN :
           /\ parent' = last_block
           /\ IF too_soon(timestamp, last_block.timestamp)
              THEN /\ candidate' = 0
                   /\ last' = Call("Mine", "None", <<timestamp, 0>>)
              ELSE IF ~root_known
              THEN /\ candidate' = 0
                   /\ last' = Call("Mine", "Panic", <<timestamp, 0>>)
              ELSE /\ candidate' = mined_block(last_block, timestamp, utility_amount, epoch)
                   /\ last' = Call("Mine", "Some",
                                   <<timestamp,
                                     adjustment_next_epoch(last_block, utility_amount, epoch)>>)
    /\ UNCHANGED <<configVars, minerVars, quorumVars, bootVars, dkgVars, dkgModuleVars,
                   certVars, electionVars, keyVars, dependencies, peers_reported, nevents>>

InitMine ==
    /\ node_type = "Miner"
    /\ InitRest

SpecMine == InitMine /\ [][Mine]_vars

\* C39: Block::mine returns no block when the timestamp of the new header is
\* earlier than the timestamp of the last block or less than one second,
\* 10^9 ns, after it; a block it returns has the height of the last block
\* plus one and no threshold signature.
C39_MinedAfterOneSecond ==
    last.op = "Mine" =>
        /\ ( \/ last.arg[1] < parent.timestamp
             \/ last.arg[1] - parent.timestamp < 1000000000 ) =>
               (last.ret = "None" /\ candidate = 0)
        /\ last.ret = "Some" =>
               /\ candidate.height = parent.height + 1
               /\ candidate.threshold_signature = {}

\* a block has been mined exactly one second after a last block of height 1
C39_Witness ==
    /\ last.op = "Mine"
    /\ last.ret = "Some"
    /\ parent.height = 1
    /\ candidate.height = 2
    /\ candidate.timestamp - parent.timestamp = 1000000000

====
